---- MODULE Spec2Model ----
(***************************************************************************)
(* A model of package printsrc (src/printsrc.go): a Printer and the        *)
(* recursive emission of one Go value as Go source text.                   *)
(*                                                                         *)
(* Text is modelled as a sequence of lexemes (strings); a package path is  *)
(* the sequence of its components; a reflect.Type is a key of the type     *)
(* table Types; a reflect.Value is a record [t, a, n, s]: its type, its    *)
(* scalar payload, whether it is nil, and its children.                    *)
(***************************************************************************)
EXTENDS Integers, Sequences, FiniteSets, TLC

VARIABLES
    p,       \* the Printer: pkgPath, imports, printers, lessFuncs
    s,       \* the emission state of the running Fprint: err, depth, tabDepth, w
    s2,      \* the copy made by state.sprint, while one is live
    stack,   \* the pending work of the running Fprint, innermost first
    calls,   \* history: every call of state.print made by the running Fprint
    value,   \* the argument of the running Fprint
    ret,     \* what Sprint returned: text and err
    pc,      \* "config", "running" or "done"
    types,   \* the reflect.Type of every type the running Fprint can meet
    other,   \* a second call of Fprint on the same Printer, in another goroutine
    log      \* history: the earlier calls of Fprint on the Printer and their results

vars == <<p, s, s2, stack, calls, value, ret, pc, types, other, log>>

----------------------------------------------------------------------------
(* Package paths *)

PkgNone == <<>>
PkgHome == <<"github.com", "jba", "printsrc">>
PkgNet  == <<"net">>
PkgExt  == <<"example.com", "ext">>
PkgTime == <<"time">>
PkgUnsafe == <<"unsafe">>

\* path.Base of a non-empty path: its last component
PathBase(path) == path[Len(path)]

----------------------------------------------------------------------------
(* reflect.Type: the type table *)

NoFields == <<>>

Prim(kind, name, pkg) ==
    [kind |-> kind, name |-> name, pkg |-> pkg, elem |-> "", key |-> "",
     len |-> 0, fields |-> NoFields]

Comp(kind, name, pkg, key, elem, len) ==
    [kind |-> kind, name |-> name, pkg |-> pkg, elem |-> elem, key |-> key,
     len |-> len, fields |-> NoFields]

StructT(name, pkg, fields) ==
    [kind |-> "struct", name |-> name, pkg |-> pkg, elem |-> "", key |-> "",
     len |-> 0, fields |-> fields]

Fld(name, exp, type) == [name |-> name, exp |-> exp, type |-> type]

\* the type table: the reflect.Type of every type of the inputs, by its String()
Types ==
    "bool" :> Prim("bool", "bool", PkgNone) @@
    "string" :> Prim("string", "string", PkgNone) @@
    "int" :> Prim("int", "int", PkgNone) @@
    "int8" :> Prim("int8", "int8", PkgNone) @@
    "int16" :> Prim("int16", "int16", PkgNone) @@
    "uint" :> Prim("uint", "uint", PkgNone) @@
    "float32" :> Prim("float32", "float32", PkgNone) @@
    "float64" :> Prim("float64", "float64", PkgNone) @@
    "complex64" :> Prim("complex64", "complex64", PkgNone) @@
    "complex128" :> Prim("complex128", "complex128", PkgNone) @@
    "Bool" :> Prim("bool", "Bool", PkgHome) @@
    "Int" :> Prim("int16", "Int", PkgHome) @@
    "Float" :> Prim("float32", "Float", PkgHome) @@
    "net.Flags" :> Prim("uint", "Flags", PkgNet) @@
    "unsafe.Pointer" :> Prim("unsafeptr", "Pointer", PkgUnsafe) @@
    "func()" :> Prim("func", "", PkgNone) @@
    "chan int" :> Comp("chan", "", PkgNone, "", "int", 0) @@
    "interface{}" :> Prim("interface", "", PkgNone) @@
    "Nested" :> StructT("Nested", PkgHome, <<Fld("B", TRUE, "int16")>>) @@
    "Point" :>
        StructT("Point", PkgHome, <<Fld("x", FALSE, "float32"), Fld("y", FALSE, "float32")>>) @@
    "Unexp" :>
        StructT("Unexp", PkgHome, <<Fld("E", TRUE, "float64"), Fld("u", FALSE, "float64")>>) @@
    "T" :>
        StructT("T", PkgHome, <<Fld("Boo", TRUE, "bool"), Fld("Map", TRUE, "map[string]Float")>>) @@
    "node" :>
        StructT("node", PkgHome, <<Fld("v", FALSE, "int"), Fld("next", FALSE, "*node")>>) @@
    "Holder" :>
        StructT("Holder", PkgHome, <<Fld("F", TRUE, "func()"), Fld("I", TRUE, "interface{}"), Fld("P", TRUE, "*Int")>>) @@
    "ext.Mixed" :>
        StructT("Mixed", PkgExt, <<Fld("E", TRUE, "int"), Fld("u", FALSE, "int"), Fld("G", TRUE, "int")>>) @@
    "ext.Opaque" :> StructT("Opaque", PkgExt, <<Fld("u", FALSE, "int")>>) @@
    "time.Time" :>
        StructT("Time", PkgTime, <<Fld("wall", FALSE, "int"), Fld("loc", FALSE, "int")>>) @@
    "struct{X int}" :> StructT("", PkgNone, <<Fld("X", TRUE, "int")>>) @@
    "struct{Y int}" :> StructT("", PkgNone, <<Fld("Y", TRUE, "int")>>) @@
    "*int" :> Comp("ptr", "", PkgNone, "", "int", 0) @@
    "*Int" :> Comp("ptr", "", PkgNone, "", "Int", 0) @@
    "*Float" :> Comp("ptr", "", PkgNone, "", "Float", 0) @@
    "*Nested" :> Comp("ptr", "", PkgNone, "", "Nested", 0) @@
    "*node" :> Comp("ptr", "", PkgNone, "", "node", 0) @@
    "*[]int" :> Comp("ptr", "", PkgNone, "", "[]int", 0) @@
    "P" :> Comp("ptr", "P", PkgHome, "", "P", 0) @@
    "PPoint" :> Comp("ptr", "PPoint", PkgHome, "", "Point", 0) @@
    "[]int" :> Comp("slice", "", PkgNone, "", "int", 0) @@
    "[]uint" :> Comp("slice", "", PkgNone, "", "uint", 0) @@
    "[]string" :> Comp("slice", "", PkgNone, "", "string", 0) @@
    "[]Float" :> Comp("slice", "", PkgNone, "", "Float", 0) @@
    "[]float64" :> Comp("slice", "", PkgNone, "", "float64", 0) @@
    "[]complex64" :> Comp("slice", "", PkgNone, "", "complex64", 0) @@
    "[]Nested" :> Comp("slice", "", PkgNone, "", "Nested", 0) @@
    "[]*Nested" :> Comp("slice", "", PkgNone, "", "*Nested", 0) @@
    "[]node" :> Comp("slice", "", PkgNone, "", "node", 0) @@
    "[][]int" :> Comp("slice", "", PkgNone, "", "[]int", 0) @@
    "[]*[]int" :> Comp("slice", "", PkgNone, "", "*[]int", 0) @@
    "[]interface{}" :> Comp("slice", "", PkgNone, "", "interface{}", 0) @@
    "[]ext.Opaque" :> Comp("slice", "", PkgNone, "", "ext.Opaque", 0) @@
    "[]ext.Mixed" :> Comp("slice", "", PkgNone, "", "ext.Mixed", 0) @@
    "[]struct{X int}" :> Comp("slice", "", PkgNone, "", "struct{X int}", 0) @@
    "[]map[string]int" :> Comp("slice", "", PkgNone, "", "map[string]int", 0) @@
    "[2]Point" :> Comp("array", "", PkgNone, "", "Point", 2) @@
    "[2]PPoint" :> Comp("array", "", PkgNone, "", "PPoint", 2) @@
    "[1]bool" :> Comp("array", "", PkgNone, "", "bool", 1) @@
    "map[string]int" :> Comp("map", "", PkgNone, "string", "int", 0) @@
    "map[string]Float" :> Comp("map", "", PkgNone, "string", "Float", 0) @@
    "map[int][]int" :> Comp("map", "", PkgNone, "int", "[]int", 0) @@
    "map[Nested]Nested" :> Comp("map", "", PkgNone, "Nested", "Nested", 0) @@
    "map[struct{X int}]struct{Y int}" :>
        Comp("map", "", PkgNone, "struct{X int}", "struct{Y int}", 0) @@
    "map[float64]int" :> Comp("map", "", PkgNone, "float64", "int", 0) @@
    "map[bool]string" :> Comp("map", "", PkgNone, "bool", "string", 0) @@
    "Str" :> Prim("string", "Str", PkgHome) @@
    "map[Str]int" :> Comp("map", "", PkgNone, "Str", "int", 0) @@
    "[]*int" :> Comp("slice", "", PkgNone, "", "*int", 0) @@
    "[]T" :> Comp("slice", "", PkgNone, "", "T", 0) @@
    "[11]int" :> Comp("array", "", PkgNone, "", "int", 11) @@
    "*time.Time" :> Comp("ptr", "", PkgNone, "", "time.Time", 0) @@
    "**Nested" :> Comp("ptr", "", PkgNone, "", "*Nested", 0) @@
    "MyMap" :> Comp("map", "MyMap", PkgHome, "string", "int", 0)

TypeIds == DOMAIN Types

\* reflect.Type's accessors; NoType is the nil reflect.Type
NoType == ""
Kind(t) == types[t].kind
Name(t) == types[t].name
PkgPath(t) == types[t].pkg
Elem(t) == types[t].elem
Key(t) == types[t].key
NumField(t) == Len(types[t].fields)
Field(t, i) == types[t].fields[i]

IntKinds == {"int", "int8", "int16", "int32", "int64"}
UintKinds == {"uint", "uint8", "uint16", "uint32", "uint64", "uintptr"}
FloatKinds == {"float32", "float64"}
ComplexKinds == {"complex64", "complex128"}

isPrimitive(k) ==
    k \in {"bool", "string"} \cup IntKinds \cup UintKinds \cup FloatKinds \cup ComplexKinds

\* isExported taking every field for exported
isExportedAlways(f) == TRUE

isExported(f) == f.exp

----------------------------------------------------------------------------
(* reflect.Value *)

\* [t, a, n, s]: type; scalar payload (a bool as 0/1, an integer as itself, a
\* string or a float as its index in Strings or Floats, a pointer into Heap
\* as its address); nil-ness; children (elements, fields in declaration
\* order, map entries as key, value, key, value ... in the order MapKeys
\* yields them, the referent of a pointer, the dynamic value of an
\* interface, the real and imaginary parts of a complex number).
Val(t, a, n, ch) == [t |-> t, a |-> a, n |-> n, s |-> ch]

\* reflect.ValueOf(nil): the invalid Value
Invalid == Val(NoType, 0, TRUE, <<>>)
IsValid(v) == v.t # NoType

Scalar(t, a) == Val(t, a, FALSE, <<>>)
NilOf(t) == Val(t, 0, TRUE, <<>>)
Items(t, elems) == Val(t, 0, FALSE, elems)
PtrTo(t, v) == Val(t, 0, FALSE, <<v>>)
Iface(v) == Val("interface{}", 0, FALSE, <<v>>)
Cplx(t, re, im) == Val(t, 0, FALSE, <<Scalar("float64", re), Scalar("float64", im)>>)

\* the strings of the model and their Go syntax as fmt's %#v writes it
\* (strconv.Quote: a tab is written as backslash t)
Strings == <<"a", "b", "a\tb", "a string of more than twenty bytes">>
Quoted == <<"\"a\"", "\"b\"", "\"a\\tb\"", "\"a string of more than twenty bytes\"">>
StrOf(a) == IF a = 0 THEN "" ELSE Strings[a]
Quote(a) == IF a = 0 THEN "\"\"" ELSE Quoted[a]
StrLen(a) == Len(StrOf(a))

\* the floats of the model: index 0 is 0.0; FloatText is fmt's %g
FloatText == <<"1", "1.5", "1e-05", "-1", "NaN", "+Inf", "-Inf">>
FNaN == 5
FPosInf == 6
FNegInf == 7
FloatG(a) == IF a = 0 THEN "0" ELSE FloatText[a]
\* strings.ContainsAny(vs, ".e") for the text of a finite float
FloatHasDotOrE(a) == a \in {2, 3}
\* fmt's %+g of a finite float (the imaginary part of a complex)
FloatPlusG(a) == IF a = 4 THEN FloatG(a) ELSE "+" \o FloatG(a)

Digits == <<"0", "1", "2", "3", "4", "5", "6", "7", "8", "9",
            "a", "b", "c", "d", "e", "f">>

RECURSIVE NatText(_, _)
\* strconv's digits of a natural number in a base
NatText(n, base) ==
    IF n < base THEN Digits[n + 1]
    ELSE NatText(n \div base, base) \o Digits[(n % base) + 1]

\* fmt.Sprintf("%#v", v) for a value of a primitive kind
FormatGoValue(v) ==
    LET k == Kind(v.t) IN
    CASE k = "bool" -> IF v.a = 1 THEN "true" ELSE "false"
      [] k = "string" -> Quote(v.a)
      [] k \in IntKinds -> IF v.a < 0 THEN "-" \o NatText(-v.a, 10) ELSE NatText(v.a, 10)
      [] k \in UintKinds -> "0x" \o NatText(v.a, 16)
      [] k \in FloatKinds -> FloatG(v.a)
      [] k \in ComplexKinds -> "(" \o FloatG(v.s[1].a) \o FloatPlusG(v.s[2].a) \o "i)"

\* Fail after this many recursive calls to state.print.
maxDepth == 100

\* the variables pointers into the heap refer to: Heap[1] is a node whose next
\* field points to the node itself, Heap[2] a variable p of type P (type P *P)
\* after p = &p, and from Heap[3] on maxDepth variables of type P, each the
\* address of the next but the last, which is nil
Heap == << Items("node", <<Scalar("int", 1), Val("*node", 1, FALSE, <<>>)>>),
           Val("P", 2, FALSE, <<>>) >>
        \o [k \in 1..maxDepth |->
                IF k = maxDepth THEN NilOf("P") ELSE Val("P", k + 3, FALSE, <<>>)]

\* reflect.Value.Elem of a pointer or interface
ElemOf(v) ==
    IF v.n THEN Invalid
    ELSE IF v.s = <<>> THEN Heap[v.a] ELSE v.s[1]

RECURSIVE IsZero(_)
\* reflect.Value.IsZero
IsZero(v) ==
    LET k == Kind(v.t) IN
    CASE k \in {"bool", "string"} \cup IntKinds \cup UintKinds \cup FloatKinds -> v.a = 0
      [] k \in ComplexKinds -> v.s[1].a = 0 /\ v.s[2].a = 0
      [] k \in {"array", "struct"} -> \A i \in 1..Len(v.s) : IsZero(v.s[i])
      [] OTHER -> v.n

\* reflect.Value.Len of a slice, array, map or string
LenOf(v) ==
    CASE Kind(v.t) = "map" -> Len(v.s) \div 2
      [] Kind(v.t) = "string" -> StrLen(v.a)
      [] OTHER -> Len(v.s)

MapKey(v, i) == v.s[2 * i - 1]
MapValue(v, i) == v.s[2 * i]

RECURSIVE GoEqual(_, _)
\* Go's == on two values of one comparable type: a NaN equals nothing
GoEqual(v, w) ==
    LET k == Kind(v.t) IN
    CASE k \in FloatKinds -> v.a = w.a /\ v.a # FNaN
      [] k \in ComplexKinds \cup {"struct", "array"} ->
            \A i \in 1..Len(v.s) : GoEqual(v.s[i], w.s[i])
      [] k = "interface" ->
            /\ v.n = w.n
            /\ ~v.n => (v.s[1].t = w.s[1].t /\ GoEqual(v.s[1], w.s[1]))
      [] OTHER -> v = w

\* reflect.Value.MapIndex: the value of the entry whose key equals key, the
\* zero Value when there is none
MapIndex(v, key) ==
    LET found == { i \in 1..(Len(v.s) \div 2) : GoEqual(MapKey(v, i), key) }
    IN IF found = {} THEN Invalid ELSE MapValue(v, CHOOSE i \in found : TRUE)

\* reflect.Value.MapKeys: the keys of v (the numbers of its entries) in an
\* unspecified order
MapKeys(v) ==
    LET n == Len(v.s) \div 2
    IN { ks \in [1..n -> 1..n] : \A i, j \in 1..n : ks[i] = ks[j] => i = j }

----------------------------------------------------------------------------
(* Errors and text *)

\* an error is a sequence of strings (its message, then the type or path it
\* names); the nil error is the empty sequence
NoErr == <<>>
ErrDepth == <<"max recursion depth exceeded (probable circularity)">>
ErrCannotPrint(t) == <<"cannot print values of type", t>>
ErrUnnamed(t) == <<"can't handle unnamed type", t>>
ErrNoFields(t) == <<"non-zero struct has no printable fields", t>>
ErrLocation == <<"don't know how to represent location in source">>
ErrCustom == <<"custom printer failed">>
ErrWrite == <<"write failed">>

\* the lexemes of a string: nothing for the empty string
Tok(str) == IF str = "" THEN <<>> ELSE <<str>>

----------------------------------------------------------------------------
(* Printer *)

\* the custom print functions of the model: the one NewPrinter registers for
\* time.Time, one that returns a string and one that returns an error
PrintFuncs == {"timePrinter", "okPrinter", "failPrinter"}

\* a map with no entries
EmptyMap == [x \in {} |-> ""]

\* the argument of RegisterPrinter or RegisterLess: a func value with the types
\* of its parameters (the last one a slice when variadic) and of its results,
\* or a value that is no function
Func(in, variadic, out, body) ==
    [kind |-> "func", in |-> in, variadic |-> variadic, out |-> out, body |-> body]
NotAFunc == [kind |-> "int", in |-> <<>>, variadic |-> FALSE, out |-> <<>>, body |-> "42"]

\* processPrintFunc
processPrintFunc(pf) ==
    IF pf.kind # "func"
    THEN [argType |-> NoType, f |-> "nil",
          err |-> <<"argument to RegisterPrinter not a function: ", pf.body>>]
    ELSE IF Len(pf.in) # 1 \/ pf.variadic
    THEN [argType |-> NoType, f |-> "nil",
          err |-> <<"argument to RegisterPrinter must be a function of one non-variadic argument: ", pf.body>>]
    ELSE IF ~ \/ Len(pf.out) = 1 /\ pf.out[1] = "string"
              \/ Len(pf.out) = 2 /\ pf.out[1] = "string" /\ pf.out[2] = "error"
    THEN [argType |-> NoType, f |-> "nil",
          err |-> <<"argument to RegisterPrinter must be a function returning string or (string, error): ", pf.body>>]
    ELSE [argType |-> pf.in[1], f |-> pf.body, err |-> NoErr]

\* processLessFunc without the comparison of the two parameter types
processLessFuncAnyTypes(lf) ==
    IF lf.kind # "func"
    THEN [argType |-> NoType, f |-> "nil",
          err |-> <<"argument to RegisterLess not a function: ", lf.body>>]
    ELSE IF Len(lf.in) # 2 \/ lf.variadic
    THEN [argType |-> NoType, f |-> "nil",
          err |-> <<"argument to RegisterLess must be a function of two non-variadic arguments of the same type: ", lf.body>>]
    ELSE IF Len(lf.out) # 1 \/ lf.out[1] # "bool"
    THEN [argType |-> NoType, f |-> "nil",
          err |-> <<"argument to RegisterLess must be a function returning bool: ", lf.body>>]
    ELSE [argType |-> lf.in[1], f |-> lf.body, err |-> NoErr]

\* processLessFunc
processLessFunc(lf) ==
    IF lf.kind # "func"
    THEN [argType |-> NoType, f |-> "nil",
          err |-> <<"argument to RegisterLess not a function: ", lf.body>>]
    ELSE IF Len(lf.in) # 2 \/ lf.variadic \/ lf.in[1] # lf.in[2]
    THEN [argType |-> NoType, f |-> "nil",
          err |-> <<"argument to RegisterLess must be a function of two non-variadic arguments of the same type: ", lf.body>>]
    ELSE IF Len(lf.out) # 1 \/ lf.out[1] # "bool"
    THEN [argType |-> NoType, f |-> "nil",
          err |-> <<"argument to RegisterLess must be a function returning bool: ", lf.body>>]
    ELSE [argType |-> lf.in[1], f |-> lf.body, err |-> NoErr]

\* NewPrinter(packagePath)
NewPrinter(packagePath) ==
    [pkgPath |-> packagePath,
     imports |-> EmptyMap,
     printers |-> ("time.Time" :> "timePrinter"),
     lessFuncs |-> EmptyMap]

\* PackageIdentifier looking at the imports before the home path
PackageIdentifierImportsFirst(pr, pkgPath) ==
    IF pkgPath \in DOMAIN pr.imports THEN pr.imports[pkgPath]
    ELSE IF pkgPath = pr.pkgPath THEN ""
    ELSE PathBase(pkgPath)

\* Printer.PackageIdentifier
PackageIdentifier(pr, pkgPath) ==
    IF pkgPath = pr.pkgPath THEN ""
    ELSE IF pkgPath \in DOMAIN pr.imports THEN pr.imports[pkgPath]
    ELSE PathBase(pkgPath)

\* the printer of time.Time writing the package as time whatever the imports
TimePrinterFixedIdent(pr, v) ==
    LET loc == v.s[2].a
    IN IF loc \notin {0, 1}
       THEN [out |-> <<>>, err |-> ErrLocation]
       ELSE [out |-> <<"time", ".", "Date", "(", "2008", ", ", "time", ".", "April", ", ",
                       "23", ", ", "9", ", ", "56", ", ", "23", ", ", "29", ", ", "time",
                       ".", IF loc = 0 THEN "UTC" ELSE "Local", ")">>,
             err |-> NoErr]

\* the printFunc NewPrinter registers for time.Time; the time's location is
\* field loc: 0 is time.UTC, 1 is time.Local, anything else another location
TimePrinter(pr, v) ==
    LET loc == v.s[2].a
        ident == PackageIdentifier(pr, PkgTime)
    IN IF loc \notin {0, 1}
       THEN [out |-> <<>>, err |-> ErrLocation]
       ELSE [out |-> Tok(ident) \o <<".", "Date", "(", "2008", ", ">> \o Tok(ident)
                       \o <<".", "April", ", ", "23", ", ", "9", ", ", "56", ", ",
                            "23", ", ", "29", ", ">> \o Tok(ident)
                       \o <<".", IF loc = 0 THEN "UTC" ELSE "Local", ")">>,
             err |-> NoErr]

\* calling the wrapped custom print function f on v (processPrintFunc's f)
CallPrinter(pr, f, v) ==
    CASE f = "timePrinter" -> TimePrinter(pr, v)
      [] f = "okPrinter" -> [out |-> <<"custom", "(", ")">>, err |-> NoErr]
      [] OTHER -> [out |-> <<>>, err |-> ErrCustom]

----------------------------------------------------------------------------
(* state: the helpers of the emission that do not call print *)


\* the writer of a bytes.Buffer: its Write never fails
Buffer == -1

\* the state Fprint starts from. w is the text its writer has received and
\* wfail the number of Writes the writer still accepts before it fails (Buffer:
\* all of them); live tells a copy made by sprint from none; log is history:
\* the non-nil errors assigned to err since Fprint started, in order
NewState(wfail) ==
    [err |-> NoErr, depth |-> 0, tabDepth |-> 0, w |-> <<>>, wfail |-> wfail,
     live |-> TRUE, log |-> <<>>]
NoState ==
    [err |-> NoErr, depth |-> 0, tabDepth |-> 0, w |-> <<>>, wfail |-> Buffer,
     live |-> FALSE, log |-> <<>>]

\* the assignment s.err = e of a non-nil error
setErr(st, e) == [st EXCEPT !.err = e, !.log = Append(@, e)]

\* printString without its test of s.err
printStringUnguarded(st, toks) ==
    IF st.wfail = 0 THEN setErr(st, ErrWrite)
    ELSE [st EXCEPT !.w = @ \o toks, !.wfail = IF @ > 0 THEN @ - 1 ELSE @]

\* state.printString and state.printf, writing the lexemes toks with one Write;
\* a Write that fails writes nothing
printString(st, toks) ==
    IF st.err # NoErr THEN st
    ELSE IF st.wfail = 0 THEN setErr(st, ErrWrite)
    ELSE [st EXCEPT !.w = @ \o toks, !.wfail = IF @ > 0 THEN @ - 1 ELSE @]

RECURSIVE sprintType(_, _, _)
\* state.sprintType: the text denoting type t, and the state after the call
sprintType(pr, st, t) ==
    IF Name(t) # ""
    THEN IF PkgPath(t) = PkgNone
         THEN [str |-> <<Name(t)>>, st |-> st]
         ELSE LET ident == PackageIdentifier(pr, PkgPath(t)) IN
              IF ident = ""
              THEN [str |-> <<Name(t)>>, st |-> st]
              ELSE [str |-> <<ident, ".", Name(t)>>, st |-> st]
    ELSE CASE Kind(t) = "ptr" ->
                LET r == sprintType(pr, st, Elem(t))
                IN [str |-> <<"*">> \o r.str, st |-> r.st]
           [] Kind(t) = "slice" ->
                LET r == sprintType(pr, st, Elem(t))
                IN [str |-> <<"[]">> \o r.str, st |-> r.st]
           [] Kind(t) = "array" ->
                LET r == sprintType(pr, st, Elem(t))
                IN [str |-> <<"[", NatText(types[t].len, 10), "]">> \o r.str,
                    st |-> r.st]
           [] Kind(t) = "map" ->
                LET rk == sprintType(pr, st, Key(t))
                    re == sprintType(pr, rk.st, Elem(t))
                IN [str |-> <<"map[">> \o rk.str \o <<"]">> \o re.str, st |-> re.st]
           [] Kind(t) = "interface" ->
                [str |-> <<"interface{}">>, st |-> st]
           [] OTHER -> [str |-> <<>>, st |-> setErr(st, ErrUnnamed(t))]

\* printIfNil writing nil whatever the imputed type
printIfNilBare(pr, st, v, imputedType) ==
    IF Kind(v.t) \in {"ptr", "slice", "map", "interface"} /\ v.n
    THEN [done |-> TRUE, st |-> printString(st, <<"nil">>)]
    ELSE [done |-> FALSE, st |-> st]

\* state.printIfNil: whether v was a nil pointer, slice or map, and the state
\* after the call
printIfNil(pr, st, v, imputedType) ==
    IF Kind(v.t) \in {"ptr", "slice", "map", "interface"} /\ v.n
    THEN IF v.t = imputedType
         THEN [done |-> TRUE, st |-> printString(st, <<"nil">>)]
         ELSE LET r == sprintType(pr, st, v.t)
                  st1 == r.st
              IN IF r.str[1] = "*"
                 THEN [done |-> TRUE,
                       st |-> printString(st1, <<"(">> \o r.str \o <<")", "(", "nil", ")">>)]
                 ELSE [done |-> TRUE,
                       st |-> printString(st1, r.str \o <<"(", "nil", ")">>)]
    ELSE [done |-> FALSE, st |-> st]

\* default type for an untyped constant
defaultType(v) ==
    LET k == Kind(v.t) IN
    CASE k = "bool" -> "bool"
      [] k = "string" -> "string"
      [] k \in IntKinds \cup UintKinds -> "int"
      [] k \in FloatKinds -> "float64"
      [] k \in ComplexKinds -> "complex128"

specialFloatString(f) ==
    CASE f = FNaN -> <<"math", ".", "NaN", "(", ")">>
      [] f = FPosInf -> <<"math", ".", "Inf", "(", "1", ")">>
      [] f = FNegInf -> <<"math", ".", "Inf", "(", "-1", ")">>
      [] OTHER -> <<>>

RECURSIVE oneLineType(_)
oneLineType(t) ==
    CASE Kind(t) = "string" -> FALSE
      [] Kind(t) = "ptr" -> FALSE
      [] Kind(t) = "struct" ->
            CASE NumField(t) = 0 -> TRUE
              [] NumField(t) = 1 -> oneLineType(Field(t, 1).type)
              [] NumField(t) = 2 -> oneLineType(Field(t, 1).type)
                                    /\ oneLineType(Field(t, 2).type)
              [] OTHER -> FALSE
      [] OTHER -> isPrimitive(Kind(t))

RECURSIVE oneLineValue(_)
oneLineValue(v) ==
    IF oneLineType(v.t) THEN TRUE
    ELSE IF IsZero(v) THEN TRUE
    ELSE CASE Kind(v.t) = "string" -> LenOf(v) <= 20
           [] Kind(v.t) \in {"slice", "array"} ->
                \/ LenOf(v) = 0
                \/ LenOf(v) = 1 /\ oneLineValue(v.s[1])
                \/ LenOf(v) <= 10 /\ oneLineType(Elem(v.t))
           [] Kind(v.t) = "map" ->
                \/ LenOf(v) = 0
                \/ LenOf(v) = 1 /\ oneLineValue(MapKey(v, 1)) /\ oneLineValue(MapValue(v, 1))
                \/ LenOf(v) <= 5 /\ oneLineType(Key(v.t)) /\ oneLineType(Elem(v.t))
           [] OTHER -> FALSE

----------------------------------------------------------------------------
(* Sorting map keys *)

\* the rank of the model's strings and floats in Go's order of strings
\* ("" < "a" < "a\tb" < "a string..." < "b") and of floats
\* (-Inf < -1 < 0 < 1e-05 < 1 < 1.5 < +Inf)
StrRank(a) == IF a = 0 THEN 0 ELSE <<1, 4, 2, 3>>[a]
FloatRank(a) == IF a = 0 THEN 2 ELSE <<4, 5, 3, 1, 0, 6, 0>>[a]

\* the less functions getLessFunc builds for the kinds it knows
KindLess(k, v1, v2) ==
    CASE k = "bool" -> v1.a = 0 /\ v2.a = 1
      [] k = "string" -> StrRank(v1.a) < StrRank(v2.a)
      [] k \in IntKinds \cup UintKinds -> v1.a < v2.a
      [] k \in FloatKinds ->
            v1.a # FNaN /\ v2.a # FNaN /\ FloatRank(v1.a) < FloatRank(v2.a)
      [] OTHER -> FALSE

\* getLessFunc trying the kinds before the registered functions
getLessFuncKindFirst(pr, t) ==
    IF Kind(t) \in {"bool", "string"} \cup IntKinds \cup UintKinds \cup FloatKinds
    THEN Kind(t)
    ELSE IF t \in DOMAIN pr.lessFuncs THEN pr.lessFuncs[t]
    ELSE "nil"

\* Printer.getLessFunc: the name of the less function for key type t
getLessFunc(pr, t) ==
    IF t \in DOMAIN pr.lessFuncs THEN pr.lessFuncs[t]
    ELSE IF Kind(t) \in {"bool", "string"} \cup IntKinds \cup UintKinds \cup FloatKinds
    THEN Kind(t)
    ELSE "nil"

\* calling a less function: the registered ones order by the payload,
\* descending or ascending, the others are the ones built for the kinds
CallLess(f, v1, v2) ==
    CASE f = "descending" -> v2.a < v1.a
      [] f = "ascending" -> v1.a < v2.a
      [] OTHER -> KindLess(f, v1, v2)

RECURSIVE InsertKey(_, _, _, _)
\* one pass of the insertion sort: key i moves left while it is less than the
\* key before it
InsertKey(f, v, sorted, i) ==
    IF sorted = <<>> THEN <<i>>
    ELSE IF CallLess(f, MapKey(v, i), MapKey(v, sorted[Len(sorted)]))
         THEN InsertKey(f, v, SubSeq(sorted, 1, Len(sorted) - 1), i)
              \o <<sorted[Len(sorted)]>>
         ELSE sorted \o <<i>>

RECURSIVE SortKeys(_, _, _, _)
\* sort.Slice(keys, less) on the first n keys: for the short slices of the
\* model (up to 12 elements) package sort runs an insertion sort
SortKeys(f, v, keys, n) ==
    IF n = 0 THEN <<>> ELSE InsertKey(f, v, SortKeys(f, v, keys, n - 1), keys[n])

\* the order in which printMap emits the entries of v, given v.MapKeys()
KeyOrder(pr, v, keys) ==
    LET less == getLessFunc(pr, Key(v.t)) IN
    IF less # "nil" THEN SortKeys(less, v, keys, Len(keys))
    ELSE keys

----------------------------------------------------------------------------
(* The work of a running Fprint *)

Task(op, v, imp, elide, toks, ix) ==
    [op |-> op, v |-> v, imp |-> imp, elide |-> elide, toks |-> toks, ix |-> ix]

\* a call s.print(v, imputedType, elide)
TPrint(v, imp, elide) == Task("print", v, imp, elide, <<>>, 0)
\* a call s.printString(str) or s.printf(...) of the text toks
TStr(toks) == Task("str", Invalid, NoType, FALSE, toks, 0)
\* printSeq's printPrefix, s.tabDepth++ and s.tabDepth--
TPrefix == Task("prefix", Invalid, NoType, FALSE, <<>>, 0)
TTabInc == Task("tabinc", Invalid, NoType, FALSE, <<>>, 0)
TTabDec == Task("tabdec", Invalid, NoType, FALSE, <<>>, 0)
\* the deferred s.depth-- of call number ix
TRet(ix) == Task("ret", Invalid, NoType, FALSE, <<>>, ix)
\* the return of s.sprint into printPtr's printf; toks is the type's text
TEndSprint(toks) == Task("endsprint", Invalid, NoType, FALSE, toks, 0)

RECURSIVE Flatten(_)
Flatten(seqs) == IF seqs = <<>> THEN <<>> ELSE Head(seqs) \o Flatten(Tail(seqs))

\* printSeq without its s.tabDepth--
printSeqNoTabDec(multiline, elems) ==
    IF multiline
    THEN <<TTabInc>>
         \o Flatten([i \in 1..Len(elems) |-> <<TPrefix>> \o elems[i] \o <<TStr(<<",">>)>>])
         \o <<TPrefix, TStr(<<"}">>)>>
    ELSE Flatten([i \in 1..Len(elems) |->
                    (IF i > 1 THEN <<TStr(<<", ">>)>> ELSE <<>>) \o elems[i]])
         \o <<TStr(<<"}">>)>>

\* printSeq writing the closing brace before it takes the tab back
printSeqBraceIndented(multiline, elems) ==
    IF multiline
    THEN <<TTabInc>>
         \o Flatten([i \in 1..Len(elems) |-> <<TPrefix>> \o elems[i] \o <<TStr(<<",">>)>>])
         \o <<TPrefix, TTabDec, TStr(<<"}">>)>>
    ELSE Flatten([i \in 1..Len(elems) |->
                    (IF i > 1 THEN <<TStr(<<", ">>)>> ELSE <<>>) \o elems[i]])
         \o <<TStr(<<"}">>)>>

\* state.printSeq after its opening brace: the work left, given the work of
\* each printElem(i)
printSeq(multiline, elems) ==
    IF multiline
    THEN <<TTabInc>>
         \o Flatten([i \in 1..Len(elems) |-> <<TPrefix>> \o elems[i] \o <<TStr(<<",">>)>>])
         \o <<TTabDec, TPrefix, TStr(<<"}">>)>>
    ELSE Flatten([i \in 1..Len(elems) |->
                    (IF i > 1 THEN <<TStr(<<", ">>)>> ELSE <<>>) \o elems[i]])
         \o <<TStr(<<"}">>)>>

\* what one function of the emission did before its first call of print: the
\* state it left and the work it still has to do
Did(st, tasks) == [st |-> st, tasks |-> tasks]

\* printPrimitiveLiteral converting whatever the imputed type
printPrimitiveLiteralConverting(pr, st, v, imputedType) ==
    LET vs0 == FormatGoValue(v)
        vs == IF Kind(v.t) = "float64" /\ ~FloatHasDotOrE(v.a) THEN vs0 \o ".0" ELSE vs0
    IN IF v.t # defaultType(v)
       THEN LET r == sprintType(pr, st, v.t)
            IN Did(printString(r.st, r.str \o <<"(", vs, ")">>), <<>>)
       ELSE Did(printString(st, <<vs>>), <<>>)

\* state.printPrimitiveLiteral
printPrimitiveLiteral(pr, st, v, imputedType) ==
    LET vs0 == FormatGoValue(v)
        vs == IF Kind(v.t) = "float64" /\ ~FloatHasDotOrE(v.a) THEN vs0 \o ".0" ELSE vs0
    IN IF v.t # defaultType(v) /\ (imputedType = NoType \/ Kind(imputedType) = "interface")
       THEN LET r == sprintType(pr, st, v.t)
            IN Did(printString(r.st, r.str \o <<"(", vs, ")">>), <<>>)
       ELSE Did(printString(st, <<vs>>), <<>>)

\* printFloat leaving the conversion out under a declared type
printFloatByImputed(pr, st, v, imputedType) ==
    LET fs == specialFloatString(v.a) IN
    IF fs = <<>> THEN printPrimitiveLiteral(pr, st, v, imputedType)
    ELSE IF v.t = "float64" \/ v.t = imputedType THEN Did(printString(st, fs), <<>>)
    ELSE LET r == sprintType(pr, st, v.t)
         IN Did(printString(r.st, r.str \o <<"(">> \o fs \o <<")">>), <<>>)

\* state.printFloat
printFloat(pr, st, v, imputedType) ==
    LET fs == specialFloatString(v.a) IN
    IF fs = <<>> THEN printPrimitiveLiteral(pr, st, v, imputedType)
    ELSE IF v.t = "float64" THEN Did(printString(st, fs), <<>>)
    ELSE LET r == sprintType(pr, st, v.t)
         IN Did(printString(r.st, r.str \o <<"(">> \o fs \o <<")">>), <<>>)

\* state.printComplex
printComplex(pr, st, v, imputedType) ==
    LET rs == specialFloatString(v.s[1].a)
        is == specialFloatString(v.s[2].a)
        vs == <<"complex", "(">> \o rs \o <<", ">> \o is \o <<")">>
    IN IF rs = <<>> /\ is = <<>> THEN printPrimitiveLiteral(pr, st, v, imputedType)
       ELSE IF v.t # "complex128"
       THEN LET r == sprintType(pr, st, v.t)
            IN Did(printString(r.st, r.str \o <<"(">> \o vs \o <<")">>), <<>>)
       ELSE Did(printString(st, vs), <<>>)

\* the type name a composite literal starts with: none when it is elided
typeText(pr, st, t, imputedType, elide) ==
    IF elide /\ t = imputedType THEN [str |-> <<>>, st |-> st]
    ELSE sprintType(pr, st, t)

\* printSliceOrArray calling print on its elements with elision not permitted
printSliceOrArrayNoElide(pr, st, v, imputedType, elide) ==
    LET nl == printIfNil(pr, st, v, imputedType)
        ts == typeText(pr, st, v.t, imputedType, elide)
        st1 == printString(printString(ts.st, ts.str), <<"{">>)
    IN IF nl.done THEN Did(nl.st, <<>>)
       ELSE Did(st1, printSeq(~oneLineValue(v),
                     [i \in 1..LenOf(v) |-> <<TPrint(v.s[i], Elem(v.t), FALSE)>>]))

\* state.printSliceOrArray
printSliceOrArray(pr, st, v, imputedType, elide) ==
    LET nl == printIfNil(pr, st, v, imputedType)
        ts == typeText(pr, st, v.t, imputedType, elide)
        st1 == printString(printString(ts.st, ts.str), <<"{">>)
    IN IF nl.done THEN Did(nl.st, <<>>)
       ELSE Did(st1, printSeq(~oneLineValue(v),
                     [i \in 1..LenOf(v) |-> <<TPrint(v.s[i], Elem(v.t), TRUE)>>]))

\* state.printMap, given v.MapKeys()
printMap(pr, st, v, imputedType, elide, mapKeys) ==
    LET nl == printIfNil(pr, st, v, imputedType)
        ts == typeText(pr, st, v.t, imputedType, elide)
        keys == KeyOrder(pr, v, mapKeys)
        st1 == printString(printString(ts.st, ts.str), <<"{">>)
    IN IF nl.done THEN Did(nl.st, <<>>)
       ELSE Did(st1, printSeq(~oneLineValue(v),
                     [i \in 1..Len(keys) |->
                        <<TPrint(MapKey(v, keys[i]), Key(v.t), TRUE),
                          TStr(<<": ">>),
                          TPrint(MapIndex(v, MapKey(v, keys[i])), Elem(v.t), TRUE)>>]))

RECURSIVE printableFields(_, _, _)
\* printStruct's inds: the fields of v, from field i on, that it emits
printableFields(pr, v, i) ==
    IF i > NumField(v.t) THEN <<>>
    ELSE (IF (PkgPath(v.t) = pr.pkgPath \/ isExported(Field(v.t, i))) /\ ~IsZero(v.s[i])
          THEN <<i>> ELSE <<>>) \o printableFields(pr, v, i + 1)

\* printStruct without its test for a non-zero struct with no printable field
printStructNoCheck(pr, st, v, imputedType, elide) ==
    LET t == v.t
        inds == printableFields(pr, v, 1)
        multiline == Len(inds) >= 2
                     /\ \E k \in 1..Len(inds) : ~oneLineType(Field(t, inds[k]).type)
        ts == sprintType(pr, st, t)
        st1 == IF elide /\ t = imputedType THEN printString(st, <<"{">>)
               ELSE printString(printString(ts.st, ts.str), <<"{">>)
    IN Did(st1, printSeq(multiline,
                     [k \in 1..Len(inds) |->
                        <<TStr(<<Field(t, inds[k]).name, ": ">>),
                          TPrint(v.s[inds[k]], Field(t, inds[k]).type, FALSE)>>]))

\* state.printStruct
printStruct(pr, st, v, imputedType, elide) ==
    LET t == v.t
        inds == printableFields(pr, v, 1)
        multiline == Len(inds) >= 2
                     /\ \E k \in 1..Len(inds) : ~oneLineType(Field(t, inds[k]).type)
        ts == sprintType(pr, st, t)
        st1 == IF elide /\ t = imputedType THEN printString(st, <<"{">>)
               ELSE printString(printString(ts.st, ts.str), <<"{">>)
    IN IF Len(inds) = 0 /\ ~IsZero(v)
       THEN Did(setErr(st, ErrNoFields(t)), <<>>)
       ELSE Did(st1, printSeq(multiline,
                     [k \in 1..Len(inds) |->
                        <<TStr(<<Field(t, inds[k]).name, ": ">>),
                          TPrint(v.s[inds[k]], Field(t, inds[k]).type, FALSE)>>]))

----------------------------------------------------------------------------
(* The values given to Fprint *)

IntV(n) == Scalar("int", n)
NestedV(b) == Items("Nested", <<Scalar("int16", b)>>)
PointV(x, y) == Items("Point", <<Scalar("float32", x), Scalar("float32", y)>>)
NodeV(v, next) == Items("node", <<IntV(v), next>>)
MixedV(e, u, g) == Items("ext.Mixed", <<IntV(e), IntV(u), IntV(g)>>)
OpaqueV(u) == Items("ext.Opaque", <<IntV(u)>>)
TimeV(loc) == Items("time.Time", <<IntV(1), IntV(loc)>>)
FuncV == Val("func()", 0, FALSE, <<>>)
ChanV == Val("chan int", 0, FALSE, <<>>)
HolderV(f, i, ptr) == Items("Holder", <<f, i, ptr>>)
\* the pointer to the node of the heap that points to itself
CycleV == Val("*node", 1, FALSE, <<>>)
\* the pointer p of type P that points to itself
PCycleV == Val("P", 2, FALSE, <<>>)
\* the first of a chain of maxDepth pointers of type P, the last of them nil
PChainV == Val("P", 3, FALSE, <<>>)

Scalars ==
    { Invalid, IntV(5), IntV(-87), Scalar("int8", 7), Scalar("Int", 1),
      Scalar("bool", 1), Scalar("Bool", 1), Scalar("string", 3), Scalar("string", 0),
      Scalar("net.Flags", 17), Scalar("uint", 2),
      Scalar("float64", 1), Scalar("float64", 2), Scalar("float64", 3),
      Scalar("float64", FNaN), Scalar("float64", FPosInf), Scalar("float64", FNegInf),
      Scalar("float32", 1), Scalar("float32", FNaN), Scalar("Float", FNaN),
      Scalar("Float", 2),
      Cplx("complex128", 1, 4), Cplx("complex64", 1, 4), Cplx("complex128", 0, 0),
      Cplx("complex128", FNaN, FPosInf), Cplx("complex64", FNaN, FPosInf),
      Cplx("complex128", FNaN, 1), Cplx("complex128", 2, FNegInf) }

Pointers ==
    { NilOf("*int"), PtrTo("*int", IntV(5)), PtrTo("*Int", Scalar("Int", 1)),
      PtrTo("*Float", Scalar("Float", FNaN)), NilOf("*Nested"),
      PtrTo("*Nested", NestedV(3)), CycleV, PCycleV,
      PtrTo("*node", NodeV(1, PtrTo("*node", NodeV(2, NilOf("*node"))))),
      PtrTo("*time.Time", TimeV(0)), PtrTo("**Nested", PtrTo("*Nested", NestedV(3))),
      PtrTo("*[]int", NilOf("[]int")), PChainV }

Slices ==
    { NilOf("[]int"), Items("[]int", <<>>), Items("[]int", <<IntV(1)>>),
      Items("[]int", <<IntV(1), IntV(2)>>),
      Items("[]int", [i \in 1..10 |-> IntV(i)]),
      Items("[]int", [i \in 1..11 |-> IntV(i)]),
      Items("[]uint", <<Scalar("uint", 2)>>),
      Items("[]string", <<Scalar("string", 1), Scalar("string", 2)>>),
      Items("[]string", <<Scalar("string", 4)>>),
      Items("[]Float", <<Scalar("Float", 2)>>), Items("[]Float", <<Scalar("Float", FNaN)>>),
      Items("[]float64", <<Scalar("float64", 1), Scalar("float64", FPosInf)>>),
      Items("[]complex64", <<Cplx("complex64", 1, 4), Cplx("complex64", FNaN, FPosInf)>>),
      Items("[]Nested", <<NestedV(1)>>), Items("[]Nested", <<NestedV(1), NestedV(0)>>),
      Items("[]*Nested", <<PtrTo("*Nested", NestedV(1)), NilOf("*Nested")>>),
      Items("[]*int", <<PtrTo("*int", IntV(5)), PtrTo("*int", IntV(5))>>),
      Items("[]node", <<NodeV(1, PtrTo("*node", NodeV(2, NilOf("*node")))), NodeV(3, NilOf("*node"))>>),
      Items("[][]int", <<Items("[]int", <<IntV(1), IntV(2)>>), NilOf("[]int"), Items("[]int", <<>>)>>),
      Items("[]*[]int", <<PtrTo("*[]int", Items("[]int", <<IntV(1)>>))>>),
      Items("[]interface{}", <<Iface(Scalar("float32", 1)), Iface(NilOf("map[string]int")),
                               NilOf("interface{}"), Iface(NestedV(1))>>),
      Items("[]interface{}", <<Iface(FuncV), Iface(ChanV)>>),
      Items("[]interface{}", <<Iface(IntV(1)), Iface(NilOf("func()"))>>),
      Items("[]interface{}", <<Iface(NilOf("*Nested")), Iface(NilOf("[]int")),
                               Iface(Items("[]int", <<>>))>>),
      Items("[]interface{}", <<Iface(Scalar("Int", 1)), Iface(Scalar("net.Flags", 17))>>),
      Items("[]ext.Opaque", <<OpaqueV(0), OpaqueV(1), OpaqueV(0)>>),
      Items("[]ext.Mixed", <<MixedV(1, 2, 3), MixedV(0, 0, 0)>>),
      Items("[]struct{X int}", <<Items("struct{X int}", <<IntV(1)>>)>>),
      Items("[]map[string]int", <<Items("map[string]int", <<Scalar("string", 1), IntV(1)>>)>>),
      Items("[2]Point", <<PointV(2, 4), PointV(0, 0)>>),
      Items("[2]PPoint", <<PtrTo("PPoint", PointV(2, 4)), PtrTo("PPoint", PointV(0, 0))>>),
      Items("[1]bool", <<Scalar("bool", 1)>>),
      Items("[11]int", [i \in 1..11 |-> IntV(0)]),
      Items("[]T", <<Items("T", <<Scalar("bool", 0),
                                  Items("map[string]Float",
                                        <<Scalar("string", 1), Scalar("Float", 2),
                                          Scalar("string", 2), Scalar("Float", 2)>>)>>)>>) }

Maps ==
    { NilOf("map[string]int"), Items("map[string]int", <<>>),
      Items("map[string]int", <<Scalar("string", 1), IntV(1)>>),
      Items("map[string]int", <<Scalar("string", 2), IntV(2), Scalar("string", 1), IntV(1)>>),
      Items("MyMap", <<Scalar("string", 1), IntV(1)>>),
      Items("map[int][]int", <<IntV(3), Items("[]int", <<IntV(4), IntV(5)>>),
                               IntV(1), Items("[]int", <<IntV(2)>>)>>),
      Items("map[Nested]Nested", <<NestedV(1), NestedV(2)>>),
      Items("map[Nested]Nested", <<NestedV(1), NestedV(2), NestedV(3), NestedV(0)>>),
      Items("map[Str]int", <<Scalar("Str", 2), IntV(2), Scalar("Str", 1), IntV(1)>>),
      Items("map[bool]string", <<Scalar("bool", 1), Scalar("string", 1),
                                 Scalar("bool", 0), Scalar("string", 2)>>),
      Items("map[float64]int", <<Scalar("float64", 2), IntV(1), Scalar("float64", FNegInf),
                                 IntV(2), Scalar("float64", 3), IntV(3)>>),
      Items("map[float64]int", <<Scalar("float64", FNaN), IntV(1)>>),
      Items("map[float64]int", <<Scalar("float64", 1), IntV(1), Scalar("float64", FNaN),
                                 IntV(2)>>),
      NilOf("map[struct{X int}]struct{Y int}"),
      Items("map[struct{X int}]struct{Y int}", <<>>) }

Structs ==
    { NestedV(0), NestedV(3), PointV(1, 2), PointV(0, 0),
      Items("Unexp", <<Scalar("float64", 1), Scalar("float64", 2)>>),
      Items("T", <<Scalar("bool", 1),
                   Items("map[string]Float", <<Scalar("string", 1), Scalar("Float", 2)>>)>>),
      Items("T", <<Scalar("bool", 0),
                   Items("map[string]Float", <<Scalar("string", 1), Scalar("Float", 2)>>)>>),
      NodeV(1, NilOf("*node")),
      MixedV(1, 2, 0), MixedV(0, 2, 0), MixedV(0, 0, 0), MixedV(1, 0, 3),
      OpaqueV(0), OpaqueV(1),
      TimeV(0), TimeV(1), TimeV(2),
      Items("struct{X int}", <<IntV(3)>>), Items("struct{X int}", <<IntV(0)>>),
      HolderV(FuncV, NilOf("interface{}"), NilOf("*Int")),
      HolderV(NilOf("func()"), Iface(Scalar("int8", 7)), PtrTo("*Int", Scalar("Int", 1))),
      HolderV(NilOf("func()"), Iface(ChanV), NilOf("*Int")) }

Unprintable ==
    { FuncV, NilOf("func()"), ChanV, Val("unsafe.Pointer", 0, FALSE, <<>>),
      NilOf("unsafe.Pointer") }

\* the arguments of Fprint
Inputs == Scalars \cup Pointers \cup Slices \cup Maps \cup Structs \cup Unprintable

\* the arguments of Fprint to a writer that fails: the writer accepts at most
\* MaxWrites Writes
MaxWrites == 3
\* the configuration stops when the three tables of the Printer hold this many
\* entries together, the printer of time.Time that NewPrinter registers included
MaxRegistered == 3
WriterInputs ==
    { IntV(5), Scalar("Int", 1), PtrTo("*Int", Scalar("Int", 1)), NilOf("[]int"),
      Items("[]Nested", <<NestedV(1), NestedV(0)>>),
      Items("map[string]int", <<Scalar("string", 1), IntV(1)>>),
      PointV(1, 2), FuncV }

\* the calls of Fprint: Sprint of every input, and Fprint of some to a writer
\* that fails
FprintArgs == ({Buffer} \X Inputs) \cup ((0..MaxWrites) \X WriterInputs)

\* the home packages given to NewPrinter
HomePaths == {PkgHome, PkgExt}

\* the arguments of RegisterImport, RegisterPrinter and RegisterLess
ImportArgs == { <<PkgNet, "xnet">>, <<PkgTime, "tm">>, <<PkgHome, "home">> }
PrinterArgs ==
    { Func(<<"Int">>, FALSE, <<"string", "error">>, "failPrinter"),
      Func(<<"func()">>, FALSE, <<"string">>, "okPrinter"),
      Func(<<"time.Time">>, FALSE, <<"string">>, "okPrinter"),
      NotAFunc,
      Func(<<>>, FALSE, <<"string">>, "okPrinter"),
      Func(<<"Int", "Int">>, FALSE, <<"string">>, "okPrinter"),
      Func(<<"[]Int">>, TRUE, <<"string">>, "okPrinter"),
      Func(<<"Int">>, FALSE, <<>>, "okPrinter"),
      Func(<<"Int">>, FALSE, <<"int">>, "okPrinter"),
      Func(<<"Int">>, FALSE, <<"string", "string">>, "okPrinter"),
      Func(<<"Int">>, FALSE, <<"error", "string">>, "okPrinter"),
      Func(<<"Int">>, FALSE, <<"string", "error", "error">>, "failPrinter") }
LessArgs ==
    { Func(<<"string", "string">>, FALSE, <<"bool">>, "descending"),
      Func(<<"string", "string">>, FALSE, <<"bool">>, "ascending"),
      NotAFunc,
      Func(<<"string">>, FALSE, <<"bool">>, "descending"),
      Func(<<"string", "string", "string">>, FALSE, <<"bool">>, "descending"),
      Func(<<"[]int", "[]int">>, TRUE, <<"bool">>, "descending"),
      Func(<<"string", "Str">>, FALSE, <<"bool">>, "descending"),
      Func(<<"string", "string">>, FALSE, <<>>, "descending"),
      Func(<<"string", "string">>, FALSE, <<"int">>, "descending"),
      Func(<<"string", "string">>, FALSE, <<"bool", "error">>, "descending") }

----------------------------------------------------------------------------
(* The state machine *)

\* the types a print of v can meet: those of v and of the values in it, and
\* the types their reflect.Type leads to
RECURSIVE DynamicTypes(_)
DynamicTypes(v) ==
    (IF IsValid(v) THEN {v.t} ELSE {}) \cup
    UNION { DynamicTypes(v.s[i]) : i \in 1..Len(v.s) }

RECURSIVE TypeClosure(_)
TypeClosure(ts) ==
    LET more == UNION { {Types[t].elem, Types[t].key} \cup
                        { Types[t].fields[i].type : i \in 1..Len(Types[t].fields) }
                        : t \in ts }
        next == ts \cup (more \ {NoType})
    IN IF next = ts THEN ts ELSE TypeClosure(next)

TypesOf(v) == TypeClosure(DynamicTypes(v))
NoTypes == [t \in {} |-> Types[t]]

NoRet == [text |-> <<>>, err |-> NoErr]

\* the number of entries in the imports, printers and lessFuncs of a Printer
Registered(pr) ==
    Cardinality(DOMAIN pr.imports) + Cardinality(DOMAIN pr.printers)
    + Cardinality(DOMAIN pr.lessFuncs)

\* what one call of Fprint works on and returns
Context ==
    [s |-> s, s2 |-> s2, stack |-> stack, calls |-> calls, value |-> value,
     ret |-> ret, pc |-> pc, types |-> types]

\* a goroutine that has not called Fprint; met says whether the two calls of
\* Fprint have been running at the same time
NoOther ==
    [ctx |-> [s |-> NoState, s2 |-> NoState, stack |-> <<>>, calls |-> <<>>,
              value |-> Invalid, ret |-> NoRet, pc |-> "config", types |-> NoTypes],
     met |-> FALSE]

Init ==
    /\ \E home \in HomePaths : p = NewPrinter(home)
    /\ s = NoState
    /\ s2 = NoState
    /\ stack = <<>>
    /\ calls = <<>>
    /\ value = Invalid
    /\ ret = NoRet
    /\ pc = "config"
    /\ types = NoTypes
    /\ other = NoOther
    /\ log = <<>>

\* Printer.RegisterImport
RegisterImport(packagePath, ident) ==
    /\ pc = "config"
    /\ Registered(p) < MaxRegistered
    /\ p' = [p EXCEPT !.imports = (packagePath :> ident) @@ @]
    /\ UNCHANGED <<s, s2, stack, calls, value, ret, pc, types, other, log>>

\* Printer.RegisterPrinter: it panics with processPrintFunc's error
RegisterPrinter(printFunc) ==
    /\ pc = "config"
    /\ LET r == processPrintFunc(printFunc)
       IN IF r.err # NoErr
          THEN /\ pc' = "panic"
               /\ ret' = [text |-> <<>>, err |-> r.err]
               /\ p' = p
          ELSE /\ Registered(p) < MaxRegistered
               /\ p' = [p EXCEPT !.printers = (r.argType :> r.f) @@ @]
               /\ UNCHANGED <<ret, pc>>
    /\ UNCHANGED <<s, s2, stack, calls, value, types, other, log>>

\* Printer.RegisterLess: it panics with processLessFunc's error
RegisterLess(lessFunc) ==
    /\ pc = "config"
    /\ LET r == processLessFunc(lessFunc)
       IN IF r.err # NoErr
          THEN /\ pc' = "panic"
               /\ ret' = [text |-> <<>>, err |-> r.err]
               /\ p' = p
          ELSE /\ Registered(p) < MaxRegistered
               /\ p' = [p EXCEPT !.lessFuncs = (r.argType :> r.f) @@ @]
               /\ UNCHANGED <<ret, pc>>
    /\ UNCHANGED <<s, s2, stack, calls, value, types, other, log>>

\* Printer.Fprint, up to the call of s.print; the writer w accepts wfail Writes.
\* Printer.Sprint is Fprint to a buffer
Fprint(wfail, v) ==
    /\ pc = "config"
    /\ pc' = "running"
    /\ value' = v
    /\ s' = NewState(wfail)
    /\ stack' = <<TPrint(v, NoType, FALSE)>>
    /\ calls' = <<>>
    /\ types' = [t \in TypesOf(v) |-> Types[t]]
    /\ UNCHANGED <<p, s2, ret, other, log>>

\* Fprint returns s.err; Sprint returns the buffer's text, or "" and the error
FprintReturn ==
    /\ pc = "running"
    /\ stack = <<>>
    /\ pc' = "done"
    /\ ret' = IF s.err # NoErr THEN [text |-> <<>>, err |-> s.err]
              ELSE [text |-> s.w, err |-> NoErr]
    /\ UNCHANGED <<p, s, s2, stack, calls, value, types, other, log>>

Running == pc = "running" /\ stack # <<>>
Top == Head(stack)
Rest == Tail(stack)

\* the state the running code works on: the copy while sprint is running
Cur == IF s2.live THEN s2 ELSE s
SetCur(st) == IF s2.live THEN s2' = st /\ s' = s ELSE s' = st /\ s2' = s2

RECURSIVE Caller(_)
\* the number of the innermost call of print that has not returned
Caller(stk) ==
    IF stk = <<>> THEN 0
    ELSE IF Head(stk).op = "ret" THEN Head(stk).ix ELSE Caller(Tail(stk))

\* the record of a call of print as it starts: its arguments, whether it works
\* on sprint's copy, the call that made it, the length of the text, the
\* depth, the tabDepth and the error slot on entry (depth, tabs, err0); text,
\* err and done are filled in when it returns
Call(task) ==
    [v |-> task.v, imp |-> task.imp, elide |-> task.elide, sub |-> s2.live,
     parent |-> Caller(Rest), from |-> Len(Cur.w), depth |-> Cur.depth,
     tabs |-> Cur.tabDepth, err0 |-> Cur.err, text |-> <<>>, err |-> Cur.err, done |-> FALSE]

\* state.print when s.err is already set: it returns at once
PrintSkip ==
    /\ Running /\ Top.op = "print"
    /\ Cur.err # NoErr
    /\ stack' = Rest
    /\ calls' = Append(calls, [Call(Top) EXCEPT !.done = TRUE])
    /\ UNCHANGED <<p, s, s2, value, ret, pc, types, other, log>>

\* print returning beyond maxDepth without recording the error
PrintTooDeepSilent ==
    /\ Running /\ Top.op = "print"
    /\ Cur.err = NoErr
    /\ Cur.depth > maxDepth
    /\ stack' = Rest
    /\ calls' = Append(calls, [Call(Top) EXCEPT !.done = TRUE])
    /\ UNCHANGED <<p, s, s2, value, ret, pc, types, other, log>>

\* print failing once maxDepth calls are active
PrintTooDeepEarly ==
    /\ Running /\ Top.op = "print"
    /\ Cur.err = NoErr
    /\ Cur.depth >= maxDepth
    /\ SetCur(setErr(Cur, ErrDepth))
    /\ stack' = Rest
    /\ calls' = Append(calls, [Call(Top) EXCEPT !.done = TRUE, !.err = ErrDepth])
    /\ UNCHANGED <<p, value, ret, pc, types, other, log>>

\* state.print beyond maxDepth
PrintTooDeep ==
    /\ Running /\ Top.op = "print"
    /\ Cur.err = NoErr
    /\ Cur.depth > maxDepth
    /\ SetCur(setErr(Cur, ErrDepth))
    /\ stack' = Rest
    /\ calls' = Append(calls, [Call(Top) EXCEPT !.done = TRUE, !.err = ErrDepth])
    /\ UNCHANGED <<p, value, ret, pc, types, other, log>>

\* state.print gets past its two checks
Entering == Running /\ Top.op = "print" /\ Cur.err = NoErr /\ Cur.depth <= maxDepth
\* the state after s.depth++
Entered == [Cur EXCEPT !.depth = @ + 1]
HasPrinter(v) == IsValid(v) /\ v.t \in DOMAIN p.printers
\* state.print reaches its switch on v.Kind()
Switching == Entering /\ IsValid(Top.v) /\ ~HasPrinter(Top.v)

\* the rest of a call of print: what it did, and the deferred s.depth--
Continue(did) ==
    /\ SetCur(did.st)
    /\ stack' = did.tasks \o <<TRet(Len(calls) + 1)>> \o Rest
    /\ calls' = Append(calls, Call(Top))
    /\ UNCHANGED <<p, value, ret, pc, types, other, log>>

PrintInvalid ==
    /\ Entering /\ ~IsValid(Top.v)
    /\ Continue(Did(printString(Entered, <<"nil">>), <<>>))

\* print wrapping the printer's text in a conversion to the value's type
PrintCustomConverting ==
    /\ Entering /\ HasPrinter(Top.v)
    /\ LET r == CallPrinter(p, p.printers[Top.v.t], Top.v)
           ts == sprintType(p, Entered, Top.v.t)
       IN IF r.err # NoErr
          THEN Continue(Did(setErr(Entered, r.err), <<>>))
          ELSE Continue(Did(printString(ts.st, ts.str \o <<"(">> \o r.out \o <<")">>), <<>>))

PrintCustom ==
    /\ Entering /\ HasPrinter(Top.v)
    /\ LET r == CallPrinter(p, p.printers[Top.v.t], Top.v)
       IN IF r.err # NoErr
          THEN Continue(Did(setErr(Entered, r.err), <<>>))
          ELSE Continue(Did(printString(Entered, r.out), <<>>))

PrintPrimitive ==
    /\ Switching /\ Kind(Top.v.t) \in {"bool", "string"} \cup IntKinds \cup UintKinds
    /\ Continue(printPrimitiveLiteral(p, Entered, Top.v, Top.imp))

PrintFloat ==
    /\ Switching /\ Kind(Top.v.t) \in FloatKinds
    /\ Continue(printFloat(p, Entered, Top.v, Top.imp))

PrintComplex ==
    /\ Switching /\ Kind(Top.v.t) \in ComplexKinds
    /\ Continue(printComplex(p, Entered, Top.v, Top.imp))

\* printPtr leaving the & out whenever the pointer's type is the imputed type
printPtrIgnoringElide(pr, st, v, imputedType, elide) ==
    LET nl == printIfNil(pr, st, v, imputedType) IN
    IF nl.done THEN Did(nl.st, <<>>)
    ELSE IF v.t = imputedType
    THEN Did(st, <<TPrint(ElemOf(v), Elem(imputedType), elide)>>)
    ELSE Did(printString(st, <<"&">>), <<TPrint(ElemOf(v), NoType, FALSE)>>)

\* state.printPtr of a nil pointer, or of a pointer to a composite
printPtr(pr, st, v, imputedType, elide) ==
    LET nl == printIfNil(pr, st, v, imputedType) IN
    IF nl.done THEN Did(nl.st, <<>>)
    ELSE IF v.t = imputedType /\ elide
    THEN Did(st, <<TPrint(ElemOf(v), Elem(imputedType), elide)>>)
    ELSE Did(printString(st, <<"&">>), <<TPrint(ElemOf(v), NoType, FALSE)>>)

\* whether v is a non-nil pointer whose referent has a primitive kind
PointsToPrimitive(v) == IF v.n THEN FALSE ELSE isPrimitive(Kind(ElemOf(v).t))

PrintPtr ==
    /\ Switching /\ Kind(Top.v.t) = "ptr"
    /\ ~PointsToPrimitive(Top.v)
    /\ Continue(printPtr(p, Entered, Top.v, Top.imp, Top.elide))

\* state.printPtr of a pointer to a primitive, up to s2.print in state.sprint:
\* the arguments of printf are evaluated, sprintType first, and sprint copies
\* the state and gives the copy a buffer of its own
\* printPtr printing the referent with no imputed type
PrintPtrPrimitiveUntyped ==
    /\ Switching /\ Kind(Top.v.t) = "ptr"
    /\ PointsToPrimitive(Top.v)
    /\ ~s2.live
    /\ LET elem == ElemOf(Top.v)
           ts == sprintType(p, Entered, elem.t)
       IN /\ s' = ts.st
          /\ s2' = [ts.st EXCEPT !.w = <<>>, !.wfail = Buffer]
          /\ stack' = <<TPrint(elem, NoType, FALSE), TEndSprint(ts.str),
                        TRet(Len(calls) + 1)>> \o Rest
    /\ calls' = Append(calls, Call(Top))
    /\ UNCHANGED <<p, value, ret, pc, types, other, log>>

PrintPtrPrimitive ==
    /\ Switching /\ Kind(Top.v.t) = "ptr"
    /\ PointsToPrimitive(Top.v)
    /\ ~s2.live
    /\ LET elem == ElemOf(Top.v)
           ts == sprintType(p, Entered, elem.t)
       IN /\ s' = ts.st
          /\ s2' = [ts.st EXCEPT !.w = <<>>, !.wfail = Buffer]
          /\ stack' = <<TPrint(elem, elem.t, FALSE), TEndSprint(ts.str),
                        TRet(Len(calls) + 1)>> \o Rest
    /\ calls' = Append(calls, Call(Top))
    /\ UNCHANGED <<p, value, ret, pc, types, other, log>>

\* state.sprint returns buf.String() and printPtr's printf writes
EndSprint ==
    /\ Running /\ Top.op = "endsprint"
    /\ s' = printString(s, <<"func() *">> \o Top.toks \o <<" { var x ">> \o Top.toks
                           \o <<" = ">> \o s2.w \o <<"; return &x }()">>)
    /\ s2' = NoState
    /\ stack' = Rest
    /\ UNCHANGED <<p, calls, value, ret, pc, types, other, log>>

PrintInterface ==
    /\ Switching /\ Kind(Top.v.t) = "interface"
    /\ Continue(Did(Entered, <<TPrint(ElemOf(Top.v), Top.imp, Top.elide)>>))

PrintSliceOrArray ==
    /\ Switching /\ Kind(Top.v.t) \in {"slice", "array"}
    /\ Continue(printSliceOrArray(p, Entered, Top.v, Top.imp, Top.elide))

PrintMap ==
    /\ Switching /\ Kind(Top.v.t) = "map"
    /\ \E mapKeys \in MapKeys(Top.v) :
            Continue(printMap(p, Entered, Top.v, Top.imp, Top.elide, mapKeys))

PrintStruct ==
    /\ Switching /\ Kind(Top.v.t) = "struct"
    /\ Continue(printStruct(p, Entered, Top.v, Top.imp, Top.elide))

\* print writing nil for a chan, func or unsafe.Pointer
printUnprintableAsNil(st, v) == Did(printString(st, <<"nil">>), <<>>)

\* state.print of a chan, func or unsafe.Pointer
printUnprintable(st, v) == Did(setErr(st, ErrCannotPrint(v.t)), <<>>)

PrintUnprintable ==
    /\ Switching /\ Kind(Top.v.t) \in {"chan", "func", "unsafeptr"}
    /\ Continue(printUnprintable(Entered, Top.v))

\* a call of state.printString or state.printf
WriteString ==
    /\ Running /\ Top.op = "str"
    /\ SetCur(printString(Cur, Top.toks))
    /\ stack' = Rest
    /\ UNCHANGED <<p, calls, value, ret, pc, types, other, log>>

RECURSIVE printTabs(_, _)
\* printPrefix's loop: n more tabs
printTabs(st, n) == IF n = 0 THEN st ELSE printTabs(printString(st, <<"\t">>), n - 1)

\* printSeq's printPrefix: a newline and s.tabDepth tabs
printPrefix(st) == printTabs(printString(st, <<"\n">>), st.tabDepth)

WritePrefix ==
    /\ Running /\ Top.op = "prefix"
    /\ SetCur(printPrefix(Cur))
    /\ stack' = Rest
    /\ UNCHANGED <<p, calls, value, ret, pc, types, other, log>>

\* printSeq's s.tabDepth++
TabInc ==
    /\ Running /\ Top.op = "tabinc"
    /\ SetCur([Cur EXCEPT !.tabDepth = @ + 1])
    /\ stack' = Rest
    /\ UNCHANGED <<p, calls, value, ret, pc, types, other, log>>

\* printSeq's s.tabDepth--
TabDec ==
    /\ Running /\ Top.op = "tabdec"
    /\ SetCur([Cur EXCEPT !.tabDepth = @ - 1])
    /\ stack' = Rest
    /\ UNCHANGED <<p, calls, value, ret, pc, types, other, log>>

\* a call of print returns: its deferred s.depth-- runs
PrintReturn ==
    /\ Running /\ Top.op = "ret"
    /\ SetCur([Cur EXCEPT !.depth = @ - 1])
    /\ stack' = Rest
    /\ calls' = [calls EXCEPT ![Top.ix] =
                    [@ EXCEPT !.done = TRUE,
                              !.err = Cur.err,
                              !.text = SubSeq(Cur.w, calls[Top.ix].from + 1, Len(Cur.w))]]
    /\ UNCHANGED <<p, value, ret, pc, types, other, log>>

Next ==
    \/ \E a \in ImportArgs : RegisterImport(a[1], a[2])
    \/ \E f \in PrinterArgs : RegisterPrinter(f)
    \/ \E f \in LessArgs : RegisterLess(f)
    \/ \E a \in FprintArgs : Fprint(a[1], a[2])
    \/ FprintReturn
    \/ PrintSkip
    \/ PrintTooDeep
    \/ PrintInvalid
    \/ PrintCustom
    \/ PrintPrimitive
    \/ PrintFloat
    \/ PrintComplex
    \/ PrintPtr
    \/ PrintPtrPrimitive
    \/ EndSprint
    \/ PrintInterface
    \/ PrintSliceOrArray
    \/ PrintMap
    \/ PrintStruct
    \/ PrintUnprintable
    \/ WriteString
    \/ WritePrefix
    \/ TabInc
    \/ TabDec
    \/ PrintReturn

Spec == Init /\ [][Next]_vars

----------------------------------------------------------------------------
(* Two calls of Fprint on one configured Printer *)

\* a Printer after its configuration: NewPrinter, RegisterImport of package
\* time as tm, RegisterLess of a descending order of strings
ConfiguredPrinter ==
    [NewPrinter(PkgExt) EXCEPT !.imports = (PkgTime :> "tm") @@ @,
                                 !.lessFuncs = ("string" :> "descending") @@ @]

\* a slice of values of many kinds, and a slice whose elements cannot be
\* printed
AssortedV ==
    Items("[]interface{}",
          <<Iface(Scalar("float32", 1)), Iface(Cplx("complex64", 1, 4)),
            Iface(PtrTo("*int", IntV(5))),
            Iface(Items("map[string]int", <<Scalar("string", 1), IntV(1),
                                            Scalar("string", 2), IntV(2)>>)),
            Iface(TimeV(1)), NilOf("interface{}"), Iface(PtrTo("*Nested", NestedV(3)))>>)
FailingV == Items("[]interface{}", <<Iface(FuncV), Iface(ChanV)>>)

\* the values the two goroutines print
ConcInputs == {AssortedV, FailingV, PCycleV}

ConcInit ==
    /\ p = ConfiguredPrinter
    /\ s = NoState
    /\ s2 = NoState
    /\ stack = <<>>
    /\ calls = <<>>
    /\ value = Invalid
    /\ ret = NoRet
    /\ pc = "config"
    /\ types = NoTypes
    /\ other = NoOther
    /\ log = <<>>

\* the goroutine of the other call of Fprint takes over sharing the state of
\* this one
SwitchSharedState ==
    /\ pc # "config" \/ other.ctx.pc # "config"
    /\ s' = s
    /\ s2' = other.ctx.s2
    /\ stack' = other.ctx.stack
    /\ calls' = other.ctx.calls
    /\ value' = other.ctx.value
    /\ ret' = other.ctx.ret
    /\ pc' = other.ctx.pc
    /\ types' = other.ctx.types
    /\ other' = [ctx |-> Context,
                 met |-> other.met \/ (pc = "running" /\ other.ctx.pc = "running")]
    /\ UNCHANGED <<p, log>>

\* the scheduler runs the goroutine of the other call of Fprint: each call
\* has the state that its Fprint made (s := &state{w: w, p: p}), and p is the
\* one Printer
Switch ==
    /\ pc # "config" \/ other.ctx.pc # "config"
    /\ s' = other.ctx.s
    /\ s2' = other.ctx.s2
    /\ stack' = other.ctx.stack
    /\ calls' = other.ctx.calls
    /\ value' = other.ctx.value
    /\ ret' = other.ctx.ret
    /\ pc' = other.ctx.pc
    /\ types' = other.ctx.types
    /\ other' = [ctx |-> Context,
                 met |-> other.met \/ (pc = "running" /\ other.ctx.pc = "running")]
    /\ UNCHANGED <<p, log>>

ConcNext ==
    \/ \E v \in ConcInputs : Fprint(Buffer, v)
    \/ Switch
    \/ FprintReturn
    \/ PrintSkip
    \/ PrintTooDeep
    \/ PrintInvalid
    \/ PrintCustom
    \/ PrintPrimitive
    \/ PrintFloat
    \/ PrintComplex
    \/ PrintPtr
    \/ PrintPtrPrimitive
    \/ EndSprint
    \/ PrintInterface
    \/ PrintSliceOrArray
    \/ PrintMap
    \/ PrintStruct
    \/ PrintUnprintable
    \/ WriteString
    \/ WritePrefix
    \/ TabInc
    \/ TabDec
    \/ PrintReturn

ConcSpec == ConcInit /\ [][ConcNext]_vars

----------------------------------------------------------------------------
(* Calls of Fprint one after the other on one configured Printer *)

\* at most this many calls of Fprint have returned before the last one starts
MaxEarlier == 2

\* a later call of Fprint reusing the state of the call before it
FprintAgainStale(wfail, v) ==
    /\ pc = "done"
    /\ Len(log) < MaxEarlier
    /\ log' = Append(log, [value |-> value, ret |-> ret])
    /\ pc' = "running"
    /\ value' = v
    /\ s' = [s EXCEPT !.w = <<>>, !.wfail = wfail]
    /\ stack' = <<TPrint(v, NoType, FALSE)>>
    /\ calls' = <<>>
    /\ types' = [t \in TypesOf(v) |-> Types[t]]
    /\ ret' = NoRet
    /\ UNCHANGED <<p, s2, other>>

\* Printer.Fprint called after an earlier call on the Printer has returned;
\* the history keeps what the earlier call printed and returned
FprintAgain(wfail, v) ==
    /\ pc = "done"
    /\ Len(log) < MaxEarlier
    /\ log' = Append(log, [value |-> value, ret |-> ret])
    /\ pc' = "running"
    /\ value' = v
    /\ s' = NewState(wfail)
    /\ stack' = <<TPrint(v, NoType, FALSE)>>
    /\ calls' = <<>>
    /\ types' = [t \in TypesOf(v) |-> Types[t]]
    /\ ret' = NoRet
    /\ UNCHANGED <<p, s2, other>>

SeqNext ==
    \/ \E v \in ConcInputs : Fprint(Buffer, v)
    \/ \E v \in ConcInputs : FprintAgain(Buffer, v)
    \/ FprintReturn
    \/ PrintSkip
    \/ PrintTooDeep
    \/ PrintInvalid
    \/ PrintCustom
    \/ PrintPrimitive
    \/ PrintFloat
    \/ PrintComplex
    \/ PrintPtr
    \/ PrintPtrPrimitive
    \/ EndSprint
    \/ PrintInterface
    \/ PrintSliceOrArray
    \/ PrintMap
    \/ PrintStruct
    \/ PrintUnprintable
    \/ WriteString
    \/ WritePrefix
    \/ TabInc
    \/ TabDec
    \/ PrintReturn

SeqSpec == ConcInit /\ [][SeqNext]_vars

----------------------------------------------------------------------------
(* Properties *)

\* the calls of print made so far
CallIds == 1..Len(calls)

\* C2: if any call of print of the emission ended with an error recorded, on
\* the top-level state or on sprint's copy, Fprint returns a non-nil error and
\* Sprint returns the empty string with it
ErrorsSurface ==
    (pc = "done" /\ \E i \in CallIds : calls[i].err # NoErr)
        => ret.err # NoErr /\ ret.text = <<>>

\* C3: the error slot is assigned at most once in an emission, and the error
\* Fprint returns is the first one recorded
ErrWriteOnce ==
    /\ Len(s.log) <= 1
    /\ Len(s2.log) <= 1
    /\ (pc = "done" /\ s.log # <<>>) => ret.err = s.log[1]

\* C4: once the error slot of a state is non-nil, its sink receives nothing
\* more, and a call of print on it returns at once
NoWriteAfterError ==
    [][/\ s.err # NoErr => s'.w = s.w
       /\ (s2.live /\ s2'.live /\ s2.err # NoErr) => s2'.w = s2.w
       /\ (Running /\ Top.op = "print" /\ Cur.err # NoErr)
            => (stack' = Rest /\ s' = s /\ s2' = s2)]_vars

\* a printString is about to run on a state that holds an error and text
WriteAttemptedAfterError ==
    /\ Running /\ Top.op = "str" /\ ~s2.live
    /\ s.err # NoErr /\ s.w # <<>>

\* the value given to Fprint has a named type of a package that is neither the
\* home package nor registered, and no custom printer
ForeignUnregistered ==
    /\ IsValid(value)
    /\ Name(value.t) # "" /\ PkgPath(value.t) # PkgNone
    /\ PkgPath(value.t) # p.pkgPath
    /\ PkgPath(value.t) \notin DOMAIN p.imports
    /\ value.t \notin DOMAIN p.printers

\* C5: emitting a value whose named type is of a package neither home nor
\* registered fails with the error "unknown package", and returns no text
UnknownPackageFails ==
    (pc = "done" /\ ForeignUnregistered)
        => ret.err # NoErr /\ ret.err[1] = "unknown package" /\ ret.text = <<>>

\* call i of print got to its switch on the kind of its value
AtSwitch(i) ==
    /\ calls[i].err0 = NoErr
    /\ calls[i].depth <= maxDepth
    /\ IsValid(calls[i].v)
    /\ calls[i].v.t \notin DOMAIN p.printers

\* the calls of print made by call i, and the k-th of them
ChildIds(i) == {j \in CallIds : calls[j].parent = i}
ChildAt(i, k) ==
    CHOOSE j \in ChildIds(i) : Cardinality({x \in ChildIds(i) : x < j}) = k - 1

\* the text that names the named type t in the destination file
QualifiedName(t) ==
    LET ident == PackageIdentifier(p, PkgPath(t)) IN
    IF PkgPath(t) = PkgNone \/ ident = "" THEN <<Name(t)>> ELSE <<ident, ".", Name(t)>>

\* the fields of struct v the claims call emittable, in declaration order:
\* non-zero, and exported or of a struct type of the home package
Emittable(v) ==
    LET ok(k) == /\ ~IsZero(v.s[k])
                 /\ (Field(v.t, k).exp \/ PkgPath(v.t) = p.pkgPath)
    IN SelectSeq([k \in 1..NumField(v.t) |-> k], ok)

\* C7: printStruct emits exactly the emittable fields, in declaration order,
\* each as Name: value, the value printed with the field's declared type as
\* imputed type and without elision
StructFields ==
    \A i \in CallIds :
        (AtSwitch(i) /\ calls[i].done /\ Kind(calls[i].v.t) = "struct") =>
            LET v == calls[i].v
                want == Emittable(v)
            IN /\ Cardinality(ChildIds(i)) = Len(want)
               /\ \A k \in 1..Len(want) :
                    LET c == calls[ChildAt(i, k)]
                        fld == Field(v.t, want[k])
                    IN /\ c.v = v.s[want[k]]
                       /\ c.imp = fld.type
                       /\ c.elide = FALSE
                       /\ c.err0 = NoErr =>
                            /\ s.w[c.from - 1] = fld.name
                            /\ s.w[c.from] = ": "

\* a struct with a zero field, an unexported field of a foreign type and an
\* emitted field has been printed
StructFieldsCase ==
    /\ pc = "done" /\ ret.err = NoErr
    /\ p.pkgPath = PkgHome
    /\ value.t = "ext.Mixed"
    /\ Emittable(value) = <<1>> /\ ~IsZero(value.s[2])
    /\ ret.text = <<"ext", ".", "Mixed", "{", "E", ": ", "1", "}">>

\* C8 as stated: a non-zero struct without emittable field fails with the
\* error naming its type and nothing is written; a zero struct is emitted as
\* T{} without error
NoFieldsFails ==
    \A i \in CallIds :
        (calls[i].done /\ calls[i].err0 = NoErr /\ s.wfail = Buffer
         /\ IsValid(calls[i].v) /\ Kind(calls[i].v.t) = "struct") =>
            LET v == calls[i].v IN
            /\ (~IsZero(v) /\ Emittable(v) = <<>>) =>
                    calls[i].err = ErrNoFields(v.t) /\ calls[i].text = <<>>
            /\ IsZero(v) =>
                    /\ calls[i].err = NoErr
                    /\ calls[i].text = QualifiedName(v.t) \o <<"{", "}">>

\* C8 amended: when print gets to printStruct (no custom printer for the
\* type, no earlier error) and the writer does not fail: a non-zero struct
\* without emittable field fails with the error naming its type, which Fprint
\* returns, and nothing is written; a zero struct is emitted without error as
\* T{}, or as {} where its type is elided, and fails with the unnamed-type
\* error when its type has no name and is not elided
NoFieldsFailsAtSwitch ==
    \A i \in CallIds :
        (AtSwitch(i) /\ calls[i].done /\ s.wfail = Buffer
         /\ Kind(calls[i].v.t) = "struct") =>
            LET v == calls[i].v
                elided == calls[i].elide /\ calls[i].imp = v.t
            IN /\ (~IsZero(v) /\ Emittable(v) = <<>>) =>
                    /\ calls[i].err = ErrNoFields(v.t) /\ calls[i].text = <<>>
                    /\ pc = "done" => ret.err = ErrNoFields(v.t) /\ ret.text = <<>>
               /\ (IsZero(v) /\ elided) =>
                    calls[i].err = NoErr /\ calls[i].text = <<"{", "}">>
               /\ (IsZero(v) /\ ~elided /\ Name(v.t) # "") =>
                    /\ calls[i].err = NoErr
                    /\ calls[i].text = QualifiedName(v.t) \o <<"{", "}">>
               /\ (IsZero(v) /\ ~elided /\ Name(v.t) = "") =>
                    calls[i].err = ErrUnnamed(v.t) /\ calls[i].text = <<>>

\* a non-zero struct of a foreign type with only unexported fields has failed
NoFieldsCase ==
    /\ pc = "done"
    /\ value.t = "ext.Opaque" /\ ~IsZero(value) /\ p.pkgPath = PkgHome
    /\ ret.err = ErrNoFields("ext.Opaque")

UnprintableKinds == {"chan", "func", "unsafeptr"}

\* C10 as stated: whenever print is called on a func, chan or unsafe pointer
\* it records the error naming the value's type and writes nothing for it,
\* and Sprint returns that error
UnprintableFails ==
    \A i \in CallIds :
        (calls[i].done /\ IsValid(calls[i].v)
         /\ Kind(calls[i].v.t) \in UnprintableKinds) =>
            /\ calls[i].err = ErrCannotPrint(calls[i].v.t)
            /\ calls[i].text = <<>>
            /\ pc = "done" => ret.err = ErrCannotPrint(calls[i].v.t)

\* C10 amended: whenever print is called on a func, chan or unsafe pointer
\* while no error is recorded, the depth ceiling is not exceeded and no custom
\* printer is registered for the value's type, it records the error naming
\* the type and writes nothing for the value, and Fprint returns that error
UnprintableFailsAtSwitch ==
    \A i \in CallIds :
        (AtSwitch(i) /\ calls[i].done
         /\ Kind(calls[i].v.t) \in UnprintableKinds) =>
            /\ calls[i].err = ErrCannotPrint(calls[i].v.t)
            /\ calls[i].text = <<>>
            /\ pc = "done" =>
                    ret.err = ErrCannotPrint(calls[i].v.t) /\ ret.text = <<>>

\* a nil func nested in a field has made Sprint fail
UnprintableCase ==
    /\ pc = "done"
    /\ \E i \in CallIds :
        /\ AtSwitch(i) /\ calls[i].parent # 0
        /\ calls[i].v = NilOf("func()")
        /\ ret.err = ErrCannotPrint("func()")

\* the package paths of the model
Paths == {PkgHome, PkgNet, PkgExt, PkgTime, PkgUnsafe}

CompositeKinds == {"struct", "slice", "array", "map"}

\* the composite literals of declared element, key or value type T: call j is
\* an element, key or value of the slice, array or map of call i, and its
\* value has the declared type
ElementOf(i, j) ==
    /\ AtSwitch(i) /\ calls[i].done /\ ~calls[i].v.n
    /\ Kind(calls[i].v.t) \in {"slice", "array", "map"}
    /\ j \in ChildIds(i)
    /\ calls[j].v.t = calls[j].imp
    /\ Kind(calls[j].v.t) \in CompositeKinds

\* C9 as stated: an element, key or value whose type is the declared struct,
\* slice, array or map type T is written without its type name, and the name
\* of T appears nowhere in the element
ElisionNeverRepeats ==
    \A i \in CallIds : \A j \in CallIds :
        (ElementOf(i, j) /\ s.wfail = Buffer /\ calls[i].err = NoErr) =>
            LET T == calls[j].v.t IN
            /\ calls[j].text[1] \in {"{", "nil"}
            /\ Name(T) # "" =>
                    \A k \in 1..Len(calls[j].text) : calls[j].text[k] # Name(T)

\* C9 amended: print is called on every element, key and value with the
\* declared type as imputed type and elision permitted, and an element, key or
\* value whose type is the declared struct, slice, array or map type T, with
\* no custom printer registered for T, is written without a leading type name:
\* it is nil or starts with its opening brace. The name of T can still appear
\* deeper inside the element
ElisionAtElements ==
    \A i \in CallIds :
        (AtSwitch(i) /\ calls[i].done /\ ~calls[i].v.n
         /\ Kind(calls[i].v.t) \in {"slice", "array", "map"}) =>
            \A j \in ChildIds(i) :
                /\ calls[j].elide
                /\ calls[j].imp \in {Elem(calls[i].v.t), Key(calls[i].v.t)}
                /\ (ElementOf(i, j) /\ AtSwitch(j) /\ calls[j].err = NoErr) =>
                        IF calls[j].v.n THEN calls[j].text = <<"nil">>
                        ELSE calls[j].text[1] = "{"

\* a slice of two structs of one type has been printed, and neither element
\* starts with the name of the type
ElisionCase ==
    /\ pc = "done" /\ ret.err = NoErr
    /\ p.pkgPath = PkgHome
    /\ value = Items("[]Nested", <<NestedV(1), NestedV(0)>>)
    /\ \E i, j, k \in CallIds :
        /\ j < k /\ ElementOf(i, j) /\ ElementOf(i, k)
        /\ calls[j].text = <<"{", "B", ": ", "1", "}">>
        /\ calls[k].text = <<"{", "}">>

----------------------------------------------------------------------------
(* C1: the text evaluated as a Go expression *)

\* the tokens of a text as the Go scanner sees them: blanks and tabs are
\* dropped, and so is a newline after "{" or ","; any other newline ends the
\* statement (the scanner inserts ";")
RECURSIVE Scan(_, _, _)
Scan(text, i, prev) ==
    IF i > Len(text) THEN <<>>
    ELSE LET tok == text[i] IN
         CASE tok = "\t" -> Scan(text, i + 1, prev)
           [] tok = "\n" -> IF prev \in {"{", ","} THEN Scan(text, i + 1, prev)
                            ELSE <<";">> \o Scan(text, i + 1, ";")
           [] tok = ", " -> <<",">> \o Scan(text, i + 1, ",")
           [] tok = ": " -> <<":">> \o Scan(text, i + 1, ":")
           [] OTHER -> <<tok>> \o Scan(text, i + 1, tok)

\* token i of k; "" past the end
At(k, i) == IF i \in 1..Len(k) THEN k[i] ELSE ""

\* the name a Go file of the Printer's package knows package path by: the
\* name given in its import declaration, by default the package's name
ImportName(pr, path) ==
    IF path \in DOMAIN pr.imports THEN pr.imports[path] ELSE PathBase(path)

\* the types a name denotes in a file of the Printer's package: a predeclared
\* type, a type of the package itself or of a package imported as "."
Unqualified(pr, name) ==
    { t \in TypeIds :
        /\ Types[t].name = name
        /\ \/ Types[t].pkg \in {PkgNone, pr.pkgPath}
           \/ Types[t].pkg \in DOMAIN pr.imports /\ pr.imports[Types[t].pkg] = "" }

\* the types ident.name denotes there
Qualified(pr, ident, name) ==
    { t \in TypeIds :
        /\ Types[t].name = name
        /\ Types[t].pkg \notin {PkgNone, pr.pkgPath}
        /\ ImportName(pr, Types[t].pkg) = ident }

\* the unnamed types of a kind with given key type, element type and length
Unnamed(kind, key, elem, len) ==
    { t \in TypeIds :
        /\ Types[t].name = "" /\ Types[t].kind = kind
        /\ Types[t].key = key /\ Types[t].elem = elem
        /\ kind = "array" => NatText(Types[t].len, 10) = len }

NoParse == [ok |-> FALSE, t |-> NoType, v |-> Invalid, s |-> <<>>, i |-> 0]
TypeAt(ts, i) ==
    IF Cardinality(ts) = 1 THEN [NoParse EXCEPT !.ok = TRUE, !.t = CHOOSE t \in ts : TRUE, !.i = i]
    ELSE NoParse
ValueAt(v, i) == [NoParse EXCEPT !.ok = TRUE, !.v = v, !.i = i]
ListAt(vs, i) == [NoParse EXCEPT !.ok = TRUE, !.s = vs, !.i = i]

RECURSIVE ParseType(_, _, _)
\* the type written at token i of k, and the token after it
ParseType(pr, k, i) ==
    LET tok == At(k, i) IN
    CASE tok = "[]" ->
            LET e == ParseType(pr, k, i + 1)
            IN IF e.ok THEN TypeAt(Unnamed("slice", NoType, e.t, ""), e.i) ELSE NoParse
      [] tok = "*" ->
            LET e == ParseType(pr, k, i + 1)
            IN IF e.ok THEN TypeAt(Unnamed("ptr", NoType, e.t, ""), e.i) ELSE NoParse
      [] tok = "[" ->
            LET e == ParseType(pr, k, i + 3)
            IN IF At(k, i + 2) = "]" /\ e.ok
               THEN TypeAt(Unnamed("array", NoType, e.t, At(k, i + 1)), e.i)
               ELSE NoParse
      [] tok = "map[" ->
            LET key == ParseType(pr, k, i + 1)
                e == ParseType(pr, k, key.i + 1)
            IN IF key.ok /\ At(k, key.i) = "]" /\ e.ok
               THEN TypeAt(Unnamed("map", key.t, e.t, ""), e.i)
               ELSE NoParse
      [] tok = "interface{}" -> TypeAt({"interface{}"}, i + 1)
      [] OTHER ->
            IF At(k, i + 1) = "."
            THEN TypeAt(Qualified(pr, tok, At(k, i + 2)), i + 3)
            ELSE TypeAt(Unqualified(pr, tok), i + 1)

\* the zero value of a type
RECURSIVE ZeroOf(_)
ZeroOf(t) ==
    LET k == Types[t].kind IN
    CASE k \in ComplexKinds -> Cplx(t, 0, 0)
      [] k \in {"ptr", "slice", "map", "interface"} -> NilOf(t)
      [] k = "array" -> Items(t, [i \in 1..Types[t].len |-> ZeroOf(Types[t].elem)])
      [] k = "struct" ->
            Items(t, [i \in 1..Len(Types[t].fields) |-> ZeroOf(Types[t].fields[i].type)])
      [] OTHER -> Scalar(t, 0)

\* untyped constants: the literals of the values of the model
IntConsts == -100..100
FiniteFloats == {0, 1, 2, 3, 4}
IntLiteral(n) == IF n < 0 THEN "-" \o NatText(-n, 10) ELSE NatText(n, 10)
HexLiteral(n) == "0x" \o NatText(n, 16)
FloatLiterals(a) ==
    {FloatG(a)} \cup (IF FloatHasDotOrE(a) THEN {} ELSE {FloatG(a) \o ".0"})
ComplexLiteral(re, im) == "(" \o FloatG(re) \o FloatPlusG(im) \o "i)"
\* the float that is the integer n
FloatOfInt(n) == CASE n = 0 -> 0 [] n = 1 -> 1 [] n = -1 -> 4 [] OTHER -> -1

\* the untyped constant a token denotes: its class and its value
Constant(tok) ==
    IF \E n \in IntConsts : tok = IntLiteral(n)
    THEN [cls |-> "int", a |-> CHOOSE n \in IntConsts : tok = IntLiteral(n), b |-> 0]
    ELSE IF \E n \in 0..100 : tok = HexLiteral(n)
    THEN [cls |-> "int", a |-> CHOOSE n \in 0..100 : tok = HexLiteral(n), b |-> 0]
    ELSE IF \E a \in FiniteFloats : tok \in FloatLiterals(a)
    THEN [cls |-> "float", a |-> CHOOSE a \in FiniteFloats : tok \in FloatLiterals(a), b |-> 0]
    ELSE IF \E c \in FiniteFloats \X FiniteFloats : tok = ComplexLiteral(c[1], c[2])
    THEN LET c == CHOOSE c \in FiniteFloats \X FiniteFloats : tok = ComplexLiteral(c[1], c[2])
         IN [cls |-> "complex", a |-> c[1], b |-> c[2]]
    ELSE IF \E a \in 0..Len(Strings) : tok = Quote(a)
    THEN [cls |-> "string", a |-> CHOOSE a \in 0..Len(Strings) : tok = Quote(a), b |-> 0]
    ELSE IF tok \in {"true", "false"}
    THEN [cls |-> "bool", a |-> IF tok = "true" THEN 1 ELSE 0, b |-> 0]
    ELSE [cls |-> "", a |-> 0, b |-> 0]

\* the default type of an untyped constant
DefaultTypeOf(c) ==
    CASE c.cls = "int" -> "int"
      [] c.cls = "float" -> "float64"
      [] c.cls = "complex" -> "complex128"
      [] OTHER -> c.cls

\* constant c converted to type t, at token i
ConstantAs(c, t, i) ==
    LET k == Types[t].kind IN
    CASE k \in IntKinds /\ c.cls = "int" -> ValueAt(Scalar(t, c.a), i)
      [] k \in UintKinds /\ c.cls = "int" /\ c.a >= 0 -> ValueAt(Scalar(t, c.a), i)
      [] k \in FloatKinds /\ c.cls = "float" -> ValueAt(Scalar(t, c.a), i)
      [] k \in FloatKinds /\ c.cls = "int" /\ FloatOfInt(c.a) >= 0 ->
            ValueAt(Scalar(t, FloatOfInt(c.a)), i)
      [] k \in ComplexKinds /\ c.cls = "complex" -> ValueAt(Cplx(t, c.a, c.b), i)
      [] k = "string" /\ c.cls = "string" -> ValueAt(Scalar(t, c.a), i)
      [] k = "bool" /\ c.cls = "bool" -> ValueAt(Scalar(t, c.a), i)
      [] OTHER -> NoParse

\* a value v of a type, where type ctx is expected (NoType: any type); conv
\* tells the operand of a conversion to ctx from a place that must have it
Typed(v, ctx, conv, i) ==
    IF ctx = NoType \/ v.t = ctx THEN ValueAt(v, i)
    ELSE IF Types[ctx].kind = "interface" THEN ValueAt(Iface(v), i)
    ELSE IF conv /\ \E ks \in {IntKinds \cup UintKinds, FloatKinds, ComplexKinds,
                               {"string"}, {"bool"}} :
                        Types[ctx].kind \in ks /\ Types[v.t].kind \in ks
    THEN ValueAt([v EXCEPT !.t = ctx], i)
    ELSE NoParse

RECURSIVE ParseExpr(_, _, _, _, _)
RECURSIVE ParseElements(_, _, _, _, _)
RECURSIVE ParseEntries(_, _, _, _, _)
RECURSIVE ParseFields(_, _, _, _, _)

\* the composite literal of type t whose elements start at token i
ParseBody(pr, k, i, t) ==
    LET kd == Types[t].kind IN
    CASE kd = "slice" ->
            LET r == ParseElements(pr, k, i, Types[t].elem, <<>>)
            IN IF r.ok THEN ValueAt(Items(t, r.s), r.i) ELSE NoParse
      [] kd = "array" ->
            LET r == ParseElements(pr, k, i, Types[t].elem, <<>>)
                n == Types[t].len
            IN IF r.ok /\ Len(r.s) <= n
               THEN ValueAt(Items(t, [j \in 1..n |-> IF j <= Len(r.s) THEN r.s[j]
                                                     ELSE ZeroOf(Types[t].elem)]), r.i)
               ELSE NoParse
      [] kd = "map" ->
            LET r == ParseEntries(pr, k, i, t, <<>>)
            IN IF r.ok THEN ValueAt(Items(t, r.s), r.i) ELSE NoParse
      [] kd = "struct" ->
            LET r == ParseFields(pr, k, i, t, ZeroOf(t).s)
            IN IF r.ok THEN ValueAt(Items(t, r.s), r.i) ELSE NoParse
      [] OTHER -> NoParse

\* what follows a type t that ends before token i: a conversion or a literal
ParseOperand(pr, k, i, t, ctx, conv) ==
    IF At(k, i) = "("
    THEN LET x == ParseExpr(pr, k, i + 1, t, TRUE)
         IN IF x.ok /\ At(k, x.i) = ")" THEN Typed(x.v, ctx, conv, x.i + 1) ELSE NoParse
    ELSE IF At(k, i) = "{"
    THEN LET x == ParseBody(pr, k, i + 1, t)
         IN IF x.ok THEN Typed(x.v, ctx, conv, x.i) ELSE NoParse
    ELSE NoParse

\* the value of the expression at token i of k where type ctx is expected
ParseExpr(pr, k, i, ctx, conv) ==
    LET tok == At(k, i) IN
    CASE tok = "nil" ->
            IF ctx = NoType THEN ValueAt(Invalid, i + 1)
            ELSE IF Types[ctx].kind \in {"ptr", "slice", "map", "interface"}
            THEN ValueAt(NilOf(ctx), i + 1)
            ELSE NoParse
      [] tok = "{" ->
            IF ctx # NoType /\ ~conv THEN ParseBody(pr, k, i + 1, ctx) ELSE NoParse
      [] tok = "math" ->
            IF <<At(k, i + 1), At(k, i + 2), At(k, i + 3), At(k, i + 4)>>
                    = <<".", "NaN", "(", ")">>
            THEN Typed(Scalar("float64", FNaN), ctx, conv, i + 5)
            ELSE IF /\ <<At(k, i + 1), At(k, i + 2), At(k, i + 3), At(k, i + 5)>>
                            = <<".", "Inf", "(", ")">>
                    /\ At(k, i + 4) \in {"1", "-1"}
            THEN Typed(Scalar("float64", IF At(k, i + 4) = "1" THEN FPosInf ELSE FNegInf),
                       ctx, conv, i + 6)
            ELSE NoParse
      [] tok = "complex" ->
            LET re == ParseExpr(pr, k, i + 2, "float64", FALSE)
                im == ParseExpr(pr, k, re.i + 1, "float64", FALSE)
            IN IF At(k, i + 1) = "(" /\ re.ok /\ At(k, re.i) = "," /\ im.ok
                  /\ At(k, im.i) = ")"
               THEN Typed(Cplx("complex128", re.v.a, im.v.a), ctx, conv, im.i + 1)
               ELSE NoParse
      [] tok = "(" ->
            LET ty == ParseType(pr, k, i + 1)
            IN IF ty.ok /\ At(k, ty.i) = ")" /\ At(k, ty.i + 1) = "("
               THEN ParseOperand(pr, k, ty.i + 1, ty.t, ctx, conv)
               ELSE NoParse
      [] Constant(tok).cls # "" ->
            LET c == Constant(tok) IN
            IF ctx = NoType THEN ConstantAs(c, DefaultTypeOf(c), i + 1)
            ELSE IF Types[ctx].kind = "interface"
            THEN LET x == ConstantAs(c, DefaultTypeOf(c), i + 1)
                 IN IF x.ok THEN ValueAt(Iface(x.v), x.i) ELSE NoParse
            ELSE ConstantAs(c, ctx, i + 1)
      [] OTHER ->
            LET ty == ParseType(pr, k, i)
            IN IF ty.ok THEN ParseOperand(pr, k, ty.i, ty.t, ctx, conv) ELSE NoParse

\* the elements of a slice or array literal from token i on, after those of acc
ParseElements(pr, k, i, elem, acc) ==
    IF At(k, i) = "}" THEN ListAt(acc, i + 1)
    ELSE LET x == ParseExpr(pr, k, i, elem, FALSE) IN
         IF ~x.ok THEN NoParse
         ELSE IF At(k, x.i) = "," THEN ParseElements(pr, k, x.i + 1, elem, Append(acc, x.v))
         ELSE IF At(k, x.i) = "}" THEN ListAt(Append(acc, x.v), x.i + 1)
         ELSE NoParse

\* the entries key: value of a literal of map type t
ParseEntries(pr, k, i, t, acc) ==
    IF At(k, i) = "}" THEN ListAt(acc, i + 1)
    ELSE LET key == ParseExpr(pr, k, i, Types[t].key, FALSE)
             x == ParseExpr(pr, k, key.i + 1, Types[t].elem, FALSE)
             more == acc \o <<key.v, x.v>>
         IN IF ~(key.ok /\ At(k, key.i) = ":" /\ x.ok) THEN NoParse
            ELSE IF At(k, x.i) = "," THEN ParseEntries(pr, k, x.i + 1, t, more)
            ELSE IF At(k, x.i) = "}" THEN ListAt(more, x.i + 1)
            ELSE NoParse

\* the fields name: value of a literal of struct type t; a field of a type of
\* another package must be exported
ParseFields(pr, k, i, t, acc) ==
    IF At(k, i) = "}" THEN ListAt(acc, i + 1)
    ELSE LET fs == { f \in 1..Len(Types[t].fields) :
                        /\ Types[t].fields[f].name = At(k, i)
                        /\ Types[t].fields[f].exp \/ Types[t].pkg = pr.pkgPath }
             f == CHOOSE f \in fs : TRUE
             x == ParseExpr(pr, k, i + 2, Types[t].fields[f].type, FALSE)
             more == [acc EXCEPT ![f] = x.v]
         IN IF ~(fs # {} /\ At(k, i + 1) = ":" /\ x.ok) THEN NoParse
            ELSE IF At(k, x.i) = "," THEN ParseFields(pr, k, x.i + 1, t, more)
            ELSE IF At(k, x.i) = "}" THEN ListAt(more, x.i + 1)
            ELSE NoParse

\* the text evaluated as an expression of a Go file of the Printer's package
GoEval(pr, text) ==
    LET k == Scan(text, 1, "")
        x == ParseExpr(pr, k, 1, NoType, FALSE)
    IN IF x.ok /\ x.i = Len(k) + 1 THEN x ELSE NoParse

RECURSIVE SameValue(_, _)
\* same type and same contents; the entries of a map in any order
SameValue(v, w) ==
    /\ v.t = w.t /\ v.n = w.n /\ v.a = w.a /\ Len(v.s) = Len(w.s)
    /\ IF IsValid(v) /\ Types[v.t].kind = "map"
       THEN \A i \in 1..(Len(v.s) \div 2) : \E j \in 1..(Len(w.s) \div 2) :
                /\ SameValue(v.s[2 * i - 1], w.s[2 * j - 1])
                /\ SameValue(v.s[2 * i], w.s[2 * j])
       ELSE \A i \in 1..Len(v.s) : SameValue(v.s[i], w.s[i])

RECURSIVE RepresentableType(_, _)
\* the types of the round trip: of a primitive kind, or slices, arrays and maps
\* of such types, or structs of the Printer's package with fields of such
\* types; none has a custom printer
RepresentableType(pr, t) ==
    /\ t \notin DOMAIN pr.printers
    /\ LET k == Types[t].kind IN
       \/ isPrimitive(k)
       \/ k \in {"slice", "array"} /\ RepresentableType(pr, Types[t].elem)
       \/ /\ k = "map"
          /\ RepresentableType(pr, Types[t].key)
          /\ RepresentableType(pr, Types[t].elem)
       \/ /\ k = "struct" /\ Types[t].pkg = pr.pkgPath
          /\ \A i \in 1..Len(Types[t].fields) :
                RepresentableType(pr, Types[t].fields[i].type)

\* the values of the round trip
Representable(pr, v) == IsValid(v) /\ RepresentableType(pr, v.t)

\* C1: for every representable value v without pointers, Sprint(v) succeeds
\* and the text it returns, evaluated as a Go expression, is a value equal to
\* v: same type, same contents, nil and empty containers distinct
RoundTrip ==
    (pc = "done" /\ s.wfail = Buffer /\ Representable(p, value)) =>
        /\ ret.err = NoErr
        /\ GoEval(p, ret.text).ok
        /\ SameValue(GoEval(p, ret.text).v, value)

\* the round trip of every such value but a complex one with one NaN or
\* infinite part and one finite part
RoundTripButMixedComplex ==
    (/\ pc = "done" /\ s.wfail = Buffer /\ Representable(p, value)
     /\ ~(/\ Kind(value.t) \in ComplexKinds
          /\ (value.s[1].a \in FiniteFloats) # (value.s[2].a \in FiniteFloats))) =>
        /\ ret.err = NoErr
        /\ GoEval(p, ret.text).ok
        /\ SameValue(GoEval(p, ret.text).v, value)

----------------------------------------------------------------------------
(* C11: termination *)

\* a step of the running Fprint
Emit ==
    \/ FprintReturn \/ PrintSkip \/ PrintTooDeep \/ PrintInvalid \/ PrintCustom
    \/ PrintPrimitive \/ PrintFloat \/ PrintComplex \/ PrintPtr \/ PrintPtrPrimitive
    \/ EndSprint \/ PrintInterface \/ PrintSliceOrArray \/ PrintMap \/ PrintStruct
    \/ PrintUnprintable \/ WriteString \/ WritePrefix \/ TabInc \/ TabDec \/ PrintReturn

\* every step of a running Fprint makes progress: it returns, or it records
\* one more call of print, or it takes one task off the pending work. The
\* reachable states being finitely many, no Fprint runs forever
Progress ==
    \/ pc' = "done"
    \/ Len(calls') > Len(calls)
    \/ Len(calls') = Len(calls) /\ Len(stack') < Len(stack)

\* the guards of the steps: a running Fprint has returned from every call
\* (FprintReturn), or its next task is one a step takes
CanStep ==
    \/ stack = <<>>
    \/ Top.op \in {"str", "prefix", "tabinc", "tabdec", "ret", "endsprint"}
    \/ /\ Top.op = "print"
       /\ \/ Cur.err # NoErr
          \/ Cur.depth > maxDepth
          \/ ~IsValid(Top.v)
          \/ HasPrinter(Top.v)
          \/ Kind(Top.v.t) \in {"bool", "string"} \cup IntKinds \cup UintKinds
                                \cup FloatKinds \cup ComplexKinds
          \/ Kind(Top.v.t) = "ptr" /\ (PointsToPrimitive(Top.v) => ~s2.live)
          \/ Kind(Top.v.t) \in {"interface", "slice", "array", "map", "struct",
                                 "chan", "func", "unsafeptr"}

ChildrenOf(i) == SelectSeq([j \in CallIds |-> j], LAMBDA j : calls[j].parent = i)

\* call i is a completed, error-free emission of a non-nil map by printMap
\* whose key type has a less function
SortedMapCall(i) ==
    /\ pc = "done" /\ calls[i].done /\ calls[i].err = NoErr
    /\ IsValid(calls[i].v) /\ Kind(calls[i].v.t) = "map" /\ ~calls[i].v.n
    /\ calls[i].v.t \notin DOMAIN p.printers
    /\ getLessFunc(p, Key(calls[i].v.t)) # "nil"

\* the calls made by call i are key, value, key, value ...: every entry of the
\* map once, the value its own, the keys ascending in the less function
EmitsEntriesSorted(i) ==
    LET v == calls[i].v
        n == LenOf(v)
        ch == ChildrenOf(i)
        f == getLessFunc(p, Key(v.t))
    IN /\ Len(ch) = 2 * n
       /\ \E ks \in MapKeys(v) :
            \A k \in 1..n : /\ calls[ch[2 * k - 1]].v = MapKey(v, ks[k])
                            /\ calls[ch[2 * k]].v = MapValue(v, ks[k])
       /\ \A k \in 1..(n - 1) :
            CallLess(f, calls[ch[2 * k - 1]].v, calls[ch[2 * k + 1]].v)

\* C12: a map whose key type is of kind bool, integer, float or string, or has
\* a registered less function, is emitted with every key exactly once, each
\* with its own value, in ascending order of the comparison
MapEntriesSorted ==
    \A i \in CallIds : SortedMapCall(i) => EmitsEntriesSorted(i)

\* the same, for the maps that have no NaN among their keys
MapEntriesSortedUnlessNaN ==
    \A i \in CallIds :
        (SortedMapCall(i)
            /\ \A k \in 1..LenOf(calls[i].v) : MapKey(calls[i].v, k).a # FNaN)
        => EmitsEntriesSorted(i)

\* a map with two NaN-free float keys, given out of order, has been emitted
SortedMapCase ==
    /\ pc = "done" /\ ret.err = NoErr
    /\ value = Items("map[float64]int", <<Scalar("float64", 2), IntV(1),
                                          Scalar("float64", FNegInf), IntV(2),
                                          Scalar("float64", 3), IntV(3)>>)

\* ---- C13: registered less functions ----

\* the keys of the calls call i made for the keys of its map, in order
KeysEmitted(i) ==
    LET ch == ChildrenOf(i)
    IN [k \in 1..(Len(ch) \div 2) |-> calls[ch[2 * k - 1]].v]

\* the keys call i emitted ascend in the less function f
KeysAscend(i, f) ==
    \A k \in 1..(Len(KeysEmitted(i)) - 1) :
        CallLess(f, KeysEmitted(i)[k], KeysEmitted(i)[k + 1])

\* call i is a completed, error-free emission of a non-nil map by printMap
MapCall(i) ==
    /\ pc = "done" /\ calls[i].done /\ calls[i].err = NoErr
    /\ IsValid(calls[i].v) /\ Kind(calls[i].v.t) = "map" /\ ~calls[i].v.n
    /\ calls[i].v.t \notin DOMAIN p.printers

\* C13: a less function registered for exactly the key type of a map orders
\* its keys, whatever the kind of the key type; a valid registration replaces
\* the function the type had and touches no other type; a map whose key type
\* has no registration but the kind of a registered type is ordered by the
\* comparison of its kind
RegisteredLessUsed ==
    /\ [](\A i \in CallIds :
            (MapCall(i) /\ Key(calls[i].v.t) \in DOMAIN p.lessFuncs)
                => /\ Len(KeysEmitted(i)) = LenOf(calls[i].v)
                   /\ KeysAscend(i, p.lessFuncs[Key(calls[i].v.t)]))
    /\ [](\A i \in CallIds : \A K \in DOMAIN p.lessFuncs :
            (/\ MapCall(i)
             /\ Key(calls[i].v.t) \notin DOMAIN p.lessFuncs
             /\ Kind(Key(calls[i].v.t)) = Types[K].kind)
                => /\ Len(KeysEmitted(i)) = LenOf(calls[i].v)
                   /\ KeysAscend(i, Types[K].kind))
    /\ [][\A f \in LessArgs :
            (RegisterLess(f) /\ processLessFunc(f).err = NoErr)
                => /\ DOMAIN p'.lessFuncs = DOMAIN p.lessFuncs \cup {f.in[1]}
                   /\ p'.lessFuncs[f.in[1]] = f.body
                   /\ \A K \in DOMAIN p.lessFuncs \ {f.in[1]} :
                        p'.lessFuncs[K] = p.lessFuncs[K]]_vars

\* a map of string keys has been emitted in the descending order registered
\* for string, which is not the order of the strings
RegisteredLessCase ==
    /\ pc = "done" /\ ret.err = NoErr
    /\ "string" \in DOMAIN p.lessFuncs /\ p.lessFuncs["string"] = "descending"
    /\ value = Items("map[string]int",
                     <<Scalar("string", 2), IntV(2), Scalar("string", 1), IntV(1)>>)
    /\ KeysEmitted(1) = <<Scalar("string", 2), Scalar("string", 1)>>
    /\ KindLess("string", Scalar("string", 1), Scalar("string", 2))

\* ---- C14: nil and empty maps, slices and pointers ----

RECURSIVE TypeText(_)
\* the Go text that denotes type t in the destination file
TypeText(t) ==
    IF Name(t) # "" THEN QualifiedName(t)
    ELSE CASE Kind(t) = "ptr" -> <<"*">> \o TypeText(Elem(t))
           [] Kind(t) = "slice" -> <<"[]">> \o TypeText(Elem(t))
           [] Kind(t) = "map" -> <<"map[">> \o TypeText(Key(t)) \o <<"]">> \o TypeText(Elem(t))
           [] Kind(t) = "array" ->
                <<"[", NatText(Types[t].len, 10), "]">> \o TypeText(Elem(t))
           [] Kind(t) = "interface" -> <<"interface{}">>
           [] OTHER -> <<>>

\* call i of print rendered a value of one of the kinds by its kind, and
\* ended with no error
Rendered(i, kinds) ==
    AtSwitch(i) /\ calls[i].done /\ calls[i].err = NoErr /\ Kind(calls[i].v.t) \in kinds

\* the text of a nil value of type t under the imputed type imp
NilText(t, imp) ==
    IF t = imp THEN <<"nil">>
    ELSE IF TypeText(t)[1] = "*" THEN <<"(">> \o TypeText(t) \o <<")", "(", "nil", ")">>
    ELSE TypeText(t) \o <<"(", "nil", ")">>

\* the text of an empty map or slice of type t
EmptyText(t, imp, elide) ==
    (IF elide /\ t = imp THEN <<>> ELSE TypeText(t)) \o <<"{", "}">>

\* C14: a nil map, slice or pointer is emitted as nil when its type is the
\* imputed type and as T(nil), or (T)(nil) when T starts with *, otherwise;
\* an empty map or slice is emitted as T{}, or {} when its type is elided;
\* the nil form and the empty form of a map or slice type are never the same
NilAndEmptyForms ==
    /\ \A i \in CallIds :
        (Rendered(i, {"map", "slice", "ptr"}) /\ calls[i].v.n)
            => calls[i].text = NilText(calls[i].v.t, calls[i].imp)
    /\ \A i \in CallIds :
        (Rendered(i, {"map", "slice"}) /\ ~calls[i].v.n /\ LenOf(calls[i].v) = 0)
            => calls[i].text = EmptyText(calls[i].v.t, calls[i].imp, calls[i].elide)
    /\ pc = "done" =>
        \A t \in DOMAIN types : \A imp, imp2 \in {t, NoType} : \A elide \in BOOLEAN :
            Kind(t) \in {"map", "slice"} => NilText(t, imp) # EmptyText(t, imp2, elide)

\* a nil pointer, a nil slice and an empty slice, each in an interface, have
\* been emitted as (*T)(nil), T(nil) and T{}
NilAndEmptyCase ==
    /\ pc = "done" /\ ret.err = NoErr /\ p.pkgPath = PkgHome
    /\ value = Items("[]interface{}", <<Iface(NilOf("*Nested")), Iface(NilOf("[]int")),
                                        Iface(Items("[]int", <<>>))>>)
    /\ \E i, j, k \in CallIds :
        /\ Rendered(i, {"ptr"}) /\ calls[i].v.n
        /\ calls[i].text = <<"(", "*", "Nested", ")", "(", "nil", ")">>
        /\ Rendered(j, {"slice"}) /\ calls[j].v.n
        /\ calls[j].text = <<"[]", "int", "(", "nil", ")">>
        /\ Rendered(k, {"slice"}) /\ ~calls[k].v.n
        /\ calls[k].text = <<"[]", "int", "{", "}">>

\* ---- C15: conversions of bool, string and integer literals ----

LiteralKinds == {"bool", "string"} \cup IntKinds \cup UintKinds

\* the type an untyped bool, string or integer constant takes by default
DefaultOfKind(k) == CASE k = "bool" -> "bool" [] k = "string" -> "string" [] OTHER -> "int"

\* call i must write its literal as a conversion: its type is not the default
\* type of the literal, and no declared non-interface type surrounds it
NeedsConversion(i) ==
    /\ calls[i].v.t # DefaultOfKind(Kind(calls[i].v.t))
    /\ (calls[i].imp = NoType \/ Kind(calls[i].imp) = "interface")

\* C15: a bool, string or integer of type T is emitted as T(literal) exactly
\* when T is not the default type of the literal and the imputed type is
\* absent or an interface type, and as the bare literal in every other case
LiteralConversion ==
    \A i \in CallIds :
        Rendered(i, LiteralKinds) =>
            calls[i].text = IF NeedsConversion(i)
                            THEN TypeText(calls[i].v.t)
                                 \o <<"(", FormatGoValue(calls[i].v), ")">>
                            ELSE <<FormatGoValue(calls[i].v)>>

\* a struct has been emitted with an int8 in an interface field, written as a
\* conversion, and an Int behind a pointer, written bare in its declaration
LiteralConversionCase ==
    /\ pc = "done" /\ ret.err = NoErr
    /\ \E i, j \in CallIds :
        /\ Rendered(i, LiteralKinds) /\ calls[i].imp = "interface{}"
        /\ calls[i].text = <<"int8", "(", "7", ")">>
        /\ Rendered(j, LiteralKinds) /\ calls[j].v.t = "Int" /\ calls[j].imp = "Int"
        /\ calls[j].text = <<"1">>

\* ---- C16: NaN and the infinities ----

SpecialFloats == {FNaN, FPosInf, FNegInf}

\* the call of package math that yields the special float a
SpecialCall(a) ==
    CASE a = FNaN -> <<"math", ".", "NaN", "(", ")">>
      [] a = FPosInf -> <<"math", ".", "Inf", "(", "1", ")">>
      [] a = FNegInf -> <<"math", ".", "Inf", "(", "-1", ")">>

\* C16: a NaN or infinite float is emitted as the call math.NaN(), math.Inf(1)
\* or math.Inf(-1), bare when its type is float64 and converted to its type T
\* otherwise, whatever the imputed type and the elision flag
SpecialFloatForms ==
    \A i \in CallIds :
        (Rendered(i, FloatKinds) /\ calls[i].v.a \in SpecialFloats) =>
            calls[i].text = IF calls[i].v.t = "float64"
                            THEN SpecialCall(calls[i].v.a)
                            ELSE TypeText(calls[i].v.t) \o <<"(">>
                                 \o SpecialCall(calls[i].v.a) \o <<")">>

\* a slice of the named float type Float holding NaN has been emitted: the
\* element is converted although the slice declares its type
SpecialFloatCase ==
    /\ pc = "done" /\ ret.err = NoErr /\ p.pkgPath = PkgHome
    /\ value = Items("[]Float", <<Scalar("Float", FNaN)>>)
    /\ \E i \in CallIds :
        /\ Rendered(i, FloatKinds) /\ calls[i].imp = "Float" /\ calls[i].elide
        /\ calls[i].text = <<"Float", "(", "math", ".", "NaN", "(", ")", ")">>

\* ---- C17: complex values with a NaN or infinite part ----

\* the emitted form of one part of a complex value: the math call for a
\* special part, its literal for a finite one
PartText(a) == IF a \in SpecialFloats THEN SpecialCall(a) ELSE <<FloatG(a)>>

\* C17: a complex value with a NaN or infinite part is emitted as
\* complex(R, I) with R and I the non-empty forms of its two parts, wrapped
\* as T(complex(R, I)) exactly when its type is not complex128
SpecialComplexForms ==
    \A i \in CallIds :
        (/\ Rendered(i, ComplexKinds)
         /\ (calls[i].v.s[1].a \in SpecialFloats \/ calls[i].v.s[2].a \in SpecialFloats)) =>
            LET call == <<"complex", "(">> \o PartText(calls[i].v.s[1].a) \o <<", ">>
                        \o PartText(calls[i].v.s[2].a) \o <<")">>
            IN calls[i].text = IF calls[i].v.t = "complex128" THEN call
                               ELSE TypeText(calls[i].v.t) \o <<"(">> \o call \o <<")">>

\* the same, for the values whose two parts are both NaN or infinite
SpecialComplexFormsBothSpecial ==
    \A i \in CallIds :
        (/\ Rendered(i, ComplexKinds)
         /\ calls[i].v.s[1].a \in SpecialFloats /\ calls[i].v.s[2].a \in SpecialFloats) =>
            LET call == <<"complex", "(">> \o SpecialCall(calls[i].v.s[1].a) \o <<", ">>
                        \o SpecialCall(calls[i].v.s[2].a) \o <<")">>
            IN calls[i].text = IF calls[i].v.t = "complex128" THEN call
                               ELSE TypeText(calls[i].v.t) \o <<"(">> \o call \o <<")">>

\* ---- C18: pointers to primitive values ----

\* call i rendered a non-nil pointer whose referent is of a primitive kind
PrimitivePtrCall(i) ==
    /\ Rendered(i, {"ptr"}) /\ ~calls[i].v.n
    /\ isPrimitive(Kind(ElemOf(calls[i].v).t))

\* C18: a non-nil pointer to a bool, string, integer, float or complex is
\* emitted as func() *T { var x T = V; return &x }(), T the name of the
\* referent's type and V the referent printed with T as its imputed type and
\* no elision, whatever the imputed type and elision flag of the pointer; the
\* text holds no address
PointerToPrimitive ==
    \A i \in CallIds :
        PrimitivePtrCall(i) =>
            LET elem == ElemOf(calls[i].v)
                T == TypeText(elem.t)
                ch == ChildrenOf(i)
            IN /\ Len(ch) = 1
               /\ calls[ch[1]].v = elem
               /\ calls[ch[1]].imp = elem.t
               /\ ~calls[ch[1]].elide
               /\ calls[i].text = <<"func() *">> \o T \o <<" { var x ">> \o T \o <<" = ">>
                                  \o calls[ch[1]].text \o <<"; return &x }()">>

\* a slice of two pointers to one int has been emitted: each element, its
\* type declared by the slice and elided, is its own function literal
PointerToPrimitiveCase ==
    /\ pc = "done" /\ ret.err = NoErr
    /\ value = Items("[]*int", <<PtrTo("*int", IntV(5)), PtrTo("*int", IntV(5))>>)
    /\ \E i, j \in CallIds :
        /\ i # j /\ PrimitivePtrCall(i) /\ PrimitivePtrCall(j)
        /\ calls[i].imp = "*int" /\ calls[i].elide
        /\ calls[i].text = <<"func() *", "int", " { var x ", "int", " = ", "5",
                             "; return &x }()">>
        /\ calls[j].text = calls[i].text

\* ---- C19: custom printers ----

\* call i of print found a printer registered for the type of its value
CustomCall(i) ==
    /\ calls[i].done /\ calls[i].err0 = NoErr /\ calls[i].depth <= maxDepth
    /\ IsValid(calls[i].v) /\ calls[i].v.t \in DOMAIN p.printers

\* call i rendered a value whose type has no printer, while a printer is
\* registered for the type its pointer type points to or for a type of its kind
NearCustomCall(i) ==
    /\ AtSwitch(i) /\ calls[i].done /\ calls[i].err = NoErr
    /\ \E T \in DOMAIN p.printers :
        \/ Kind(calls[i].v.t) = "ptr" /\ ~calls[i].v.n /\ Elem(calls[i].v.t) = T
        \/ Kind(calls[i].v.t) \in LiteralKinds /\ Kind(calls[i].v.t) = Types[T].kind

\* C19: a call of print on a value whose exact type has a registered printer
\* calls nothing else and emits exactly the string the printer returns, or
\* records exactly the error it returns and emits nothing; a valid
\* RegisterPrinter replaces the printer its argument type had, the one
\* NewPrinter registers for time.Time included, and touches no other type; a
\* pointer to the type and a type of the same kind are rendered by their kind
CustomPrinterUsed ==
    /\ [](\A i \in CallIds :
            CustomCall(i) =>
                LET r == CallPrinter(p, p.printers[calls[i].v.t], calls[i].v)
                IN /\ ChildrenOf(i) = <<>>
                   /\ r.err # NoErr => (calls[i].err = r.err /\ calls[i].text = <<>>)
                   /\ (r.err = NoErr /\ calls[i].err = NoErr) => calls[i].text = r.out)
    /\ [](\A i \in CallIds :
            NearCustomCall(i) =>
                IF Kind(calls[i].v.t) = "ptr"
                THEN Len(ChildrenOf(i)) = 1 /\ calls[i].text[1] \in {"&", "func() *", "{"}
                ELSE calls[i].text[Len(calls[i].text)] \in {FormatGoValue(calls[i].v), ")"})
    /\ [][\A f \in PrinterArgs :
            (RegisterPrinter(f) /\ processPrintFunc(f).err = NoErr)
                => /\ DOMAIN p'.printers = DOMAIN p.printers \cup {f.in[1]}
                   /\ p'.printers[f.in[1]] = f.body
                   /\ \A T \in DOMAIN p.printers \ {f.in[1]} :
                        p'.printers[T] = p.printers[T]]_vars

\* a time.Time has been emitted by the printer registered in place of the one
\* NewPrinter registers
CustomPrinterCase ==
    /\ pc = "done" /\ ret.err = NoErr
    /\ p.printers["time.Time"] = "okPrinter"
    /\ value = TimeV(2)
    /\ CustomCall(1)
    /\ ret.text = <<"custom", "(", ")">>

\* ---- C20: registration rejects a function of the wrong shape ----

\* a function of one non-variadic parameter returning string or (string, error)
ValidPrintFunc(f) ==
    /\ f.kind = "func" /\ Len(f.in) = 1 /\ ~f.variadic
    /\ f.out \in {<<"string">>, <<"string", "error">>}

\* a function of two non-variadic parameters of one type returning one bool
ValidLessFunc(f) ==
    /\ f.kind = "func" /\ Len(f.in) = 2 /\ ~f.variadic
    /\ f.in[1] = f.in[2]
    /\ f.out = <<"bool">>

\* C20: RegisterPrinter panics at the call unless its argument is a function
\* of one non-variadic parameter returning string or (string, error), and
\* RegisterLess unless its argument is a function of two non-variadic
\* parameters of one type returning a single bool; a rejected registration
\* leaves the printers and the less functions as they were, an accepted one
\* does not panic
RegistrationFailsFast ==
    /\ [][\A f \in PrinterArgs :
            RegisterPrinter(f) =>
                IF ValidPrintFunc(f)
                THEN pc' = "config" /\ f.in[1] \in DOMAIN p'.printers
                ELSE pc' = "panic" /\ ret'.err # NoErr /\ p' = p]_vars
    /\ [][\A f \in LessArgs :
            RegisterLess(f) =>
                IF ValidLessFunc(f)
                THEN pc' = "config" /\ f.in[1] \in DOMAIN p'.lessFuncs
                ELSE pc' = "panic" /\ ret'.err # NoErr /\ p' = p]_vars
    /\ [](pc = "panic" => stack = <<>> /\ calls = <<>> /\ ret.text = <<>>)

\* RegisterLess has panicked on a function of two parameters of two types,
\* after a registration that was accepted, which is still in place
RegistrationRejectedCase ==
    /\ pc = "panic"
    /\ ret.err = <<"argument to RegisterLess must be a function of two non-variadic arguments of the same type: ", "descending">>
    /\ p.lessFuncs = ("string" :> "ascending")
    /\ DOMAIN p.printers = {"time.Time", "Int"}

\* ---- C21: the printer of time.Time ----

\* the identifier of package time in the destination file
TimeIdent ==
    IF p.pkgPath = PkgTime THEN <<>>
    ELSE IF PkgTime \in DOMAIN p.imports THEN Tok(p.imports[PkgTime])
    ELSE <<"time">>

\* the call of time.Date for the instant of the model's times, in location loc
DateCall(loc) ==
    TimeIdent \o <<".", "Date", "(", "2008", ", ">> \o TimeIdent
    \o <<".", "April", ", ", "23", ", ", "9", ", ", "56", ", ", "23", ", ", "29", ", ">>
    \o TimeIdent \o <<".", loc, ")">>

\* call i of print ran the printer NewPrinter registers for time.Time
TimeCall(i) ==
    /\ CustomCall(i) /\ calls[i].v.t = "time.Time"
    /\ p.printers["time.Time"] = "timePrinter"

\* C21: the printer NewPrinter registers for time.Time emits
\* ID.Date(year, ID.Month, day, hour, minute, second, nanosecond, ID.UTC or
\* ID.Local), ID the identifier of package time at the time of the emission,
\* and fails with the location error exactly when the location of the time is
\* neither UTC nor Local
TimePrinterForm ==
    \A i \in CallIds :
        TimeCall(i) =>
            LET loc == calls[i].v.s[2].a IN
            /\ calls[i].err = ErrLocation <=> loc \notin {0, 1}
            /\ loc \notin {0, 1} => calls[i].text = <<>>
            /\ (loc \in {0, 1} /\ calls[i].err = NoErr) =>
                    calls[i].text = DateCall(IF loc = 0 THEN "UTC" ELSE "Local")

\* a local time has been emitted by a Printer that was told, after its
\* construction, to call package time tm
TimePrinterCase ==
    /\ pc = "done" /\ ret.err = NoErr
    /\ PkgTime \in DOMAIN p.imports /\ p.imports[PkgTime] = "tm"
    /\ value = TimeV(1) /\ TimeCall(1)
    /\ ret.text = <<"tm", ".", "Date", "(", "2008", ", ", "tm", ".", "April", ", ",
                    "23", ", ", "9", ", ", "56", ", ", "23", ", ", "29", ", ",
                    "tm", ".", "Local", ")">>

\* ---- C24: pointers to values that are not primitive ----

\* call i of print reached printPtr with a non-nil pointer whose referent is
\* not of a primitive kind, and has returned
CompositePtrCall(i) ==
    /\ AtSwitch(i) /\ calls[i].done
    /\ Kind(calls[i].v.t) = "ptr" /\ ~calls[i].v.n
    /\ ~isPrimitive(Kind(ElemOf(calls[i].v).t))

\* whether the first tokens of text are the tokens of prefix
StartsWith(text, prefix) ==
    Len(text) >= Len(prefix) /\ SubSeq(text, 1, Len(prefix)) = prefix

\* C24: a non-nil pointer to a value that is not primitive makes one call of
\* print, on its referent. When the pointer's type is the imputed type and
\* elision is permitted it writes no & and hands the referent the element type
\* as imputed type with elision permitted, so a struct referent is a bare
\* {...}; in every other case it writes & and hands the referent no imputed
\* type and no elision, so a struct, slice, array or map referent rendered by
\* its kind starts with the name of its type
PointerToComposite ==
    \A i \in CallIds :
        CompositePtrCall(i) =>
            LET elem == ElemOf(calls[i].v)
                ch == ChildrenOf(i)
                bare == calls[i].v.t = calls[i].imp /\ calls[i].elide
            IN /\ Len(ch) = 1
               /\ calls[ch[1]].v = elem
               /\ calls[ch[1]].imp = (IF bare THEN Elem(calls[i].v.t) ELSE NoType)
               /\ calls[ch[1]].elide = bare
               /\ calls[i].err = NoErr =>
                    /\ calls[i].text = (IF bare THEN <<>> ELSE <<"&">>) \o calls[ch[1]].text
                    /\ (bare /\ Kind(elem.t) = "struct" /\ AtSwitch(ch[1]))
                            => calls[ch[1]].text[1] = "{"
                    /\ (~bare /\ Kind(elem.t) \in {"struct", "slice", "array", "map"}
                              /\ AtSwitch(ch[1]))
                            => StartsWith(calls[ch[1]].text, TypeText(elem.t))

\* an array of the named pointer type PPoint has been emitted: its elements
\* are pointers whose type is the imputed type, and bare struct literals
PointerToCompositeCase ==
    /\ pc = "done" /\ ret.err = NoErr
    /\ value = Items("[2]PPoint", <<PtrTo("PPoint", PointV(2, 4)),
                                   PtrTo("PPoint", PointV(0, 0))>>)
    /\ \E i \in CallIds :
        /\ CompositePtrCall(i) /\ calls[i].imp = "PPoint" /\ calls[i].elide
        /\ calls[i].text = <<"{", "x", ": ", "1.5", ", ", "y", ": ", "-1", "}">>


\* ---- C25: the layout of printSeq ----

SeqKinds == {"struct", "slice", "array", "map"}

\* call i rendered a struct, array, non-nil slice or non-nil map by its kind
\* and without error: it went through printSeq
SeqCall(i) == Rendered(i, SeqKinds) /\ ~calls[i].v.n

\* where the opening brace of a composite literal is in its text
BraceAt(text) ==
    CHOOSE k \in 1..Len(text) : text[k] = "{" /\ \A j \in 1..(k - 1) : text[j] # "{"

\* the literal of call i breaks the line after its opening brace
IsMultiLine(i) ==
    LET k == BraceAt(calls[i].text) IN calls[i].text[k + 1] = "\n"

RECURSIVE Nesting(_)
\* the number of multi-line composites around the entries of call i, itself
\* included, counted along the calls of print that lead to it
Nesting(i) ==
    IF i = 0 THEN 0
    ELSE (IF SeqCall(i) /\ IsMultiLine(i) THEN 1 ELSE 0) + Nesting(calls[i].parent)

\* the entries of the literal of call i: the elements, the key: value pairs,
\* the Name: value pairs, as the calls of print it made wrote them
Entries(i) ==
    LET ch == ChildrenOf(i)
        v == calls[i].v
    IN CASE Kind(v.t) = "map" ->
                [k \in 1..(Len(ch) \div 2) |->
                    calls[ch[2 * k - 1]].text \o <<": ">> \o calls[ch[2 * k]].text]
         [] Kind(v.t) = "struct" ->
                [k \in 1..Len(ch) |->
                    <<Field(v.t, Emittable(v)[k]).name, ": ">> \o calls[ch[k]].text]
         [] OTHER -> [k \in 1..Len(ch) |-> calls[ch[k]].text]

Tabs(n) == [k \in 1..n |-> "\t"]

\* the text of a literal from its opening brace on, laid out on several lines
\* at nesting d, and on one line
MultiLineBody(es, d) ==
    <<"{">> \o Flatten([k \in 1..Len(es) |-> <<"\n">> \o Tabs(d) \o es[k] \o <<",">>])
            \o <<"\n">> \o Tabs(d - 1) \o <<"}">>
OneLineBody(es) ==
    <<"{">> \o Flatten([k \in 1..Len(es) |-> (IF k > 1 THEN <<", ">> ELSE <<>>) \o es[k]])
            \o <<"}">>

\* C25: in an emission that succeeded, a literal that breaks the line after
\* its brace has every entry on a line of its own, after a newline and as many
\* tabs as there are multi-line literals around the entry (its own included,
\* single-line ones not counted), a comma after every entry, the last
\* included, and the closing brace after a newline and one tab less, with
\* nothing after it; every other literal has its entries separated by ", "
\* with nothing after the last
SeqLayout ==
    (pc = "done" /\ ret.err = NoErr) =>
        \A i \in CallIds :
            SeqCall(i) =>
                LET text == calls[i].text
                    body == SubSeq(text, BraceAt(text), Len(text))
                IN IF IsMultiLine(i)
                   THEN body = MultiLineBody(Entries(i), Nesting(i))
                   ELSE body = OneLineBody(Entries(i))

\* a slice of one T has been emitted: the slice is multi-line, the struct is
\* on one line and its map multi-line, with two tabs before each entry of the
\* map and one before its closing brace
SeqLayoutCase ==
    /\ pc = "done" /\ p.pkgPath = PkgHome
    /\ value.t = "[]T"
    /\ ret.text = <<"[]", "T", "{", "\n", "\t", "{", "Map", ": ",
                    "map[", "string", "]", "Float", "{",
                    "\n", "\t", "\t", "\"a\"", ": ", "1.5", ",",
                    "\n", "\t", "\t", "\"b\"", ": ", "1.5", ",",
                    "\n", "\t", "}", "}", ",", "\n", "}">>
    /\ \E i, j \in CallIds :
        /\ SeqCall(i) /\ IsMultiLine(i) /\ Nesting(i) = 2
        /\ SeqCall(j) /\ ~IsMultiLine(j) /\ calls[i].parent = j /\ Nesting(j) = 1


\* ---- C26: when a slice or an array is on one line ----

\* a type the claims call simple: a primitive type that is no string type
SimpleType(t) == isPrimitive(Kind(t)) /\ Kind(t) # "string"

\* call i rendered an array or a non-nil slice in an emission that succeeded
ListCall(i) ==
    /\ pc = "done" /\ ret.err = NoErr
    /\ SeqCall(i) /\ Kind(calls[i].v.t) \in {"slice", "array"}

\* C26: a slice or array is on one line only if it is empty, or has one
\* element that is a one-line value, or has at most 10 elements of a simple
\* type; with 11 or more elements it is multi-line
OneLineOnlyIfSimple ==
    \A i \in CallIds :
        ListCall(i) =>
            LET v == calls[i].v IN
            /\ ~IsMultiLine(i) =>
                    \/ LenOf(v) = 0
                    \/ LenOf(v) = 1 /\ oneLineValue(v.s[1])
                    \/ LenOf(v) <= 10 /\ SimpleType(Elem(v.t))
            /\ LenOf(v) >= 11 => IsMultiLine(i)

\* the same for the slices and arrays that are not the zero value of their
\* type and whose element type is no struct type
OneLineOnlyIfSimpleUnlessZeroOrStruct ==
    \A i \in CallIds :
        (ListCall(i) /\ ~IsZero(calls[i].v) /\ Kind(Elem(calls[i].v.t)) # "struct") =>
            LET v == calls[i].v IN
            /\ ~IsMultiLine(i) =>
                    \/ LenOf(v) = 0
                    \/ LenOf(v) = 1 /\ oneLineValue(v.s[1])
                    \/ LenOf(v) <= 10 /\ SimpleType(Elem(v.t))
            /\ LenOf(v) >= 11 => IsMultiLine(i)

\* ---- C27: slices of structs ----

\* C27: a non-empty slice whose element type is a struct type or a pointer to
\* a struct type is multi-line, whatever its length
StructSliceMultiLine ==
    \A i \in CallIds :
        (/\ ListCall(i) /\ Kind(calls[i].v.t) = "slice" /\ LenOf(calls[i].v) > 0
         /\ LET e == Elem(calls[i].v.t)
            IN Kind(e) = "struct" \/ (Kind(e) = "ptr" /\ Kind(Elem(e)) = "struct"))
            => IsMultiLine(i)

\* the same for the slices of pointers to structs alone
StructPointerSliceMultiLine ==
    \A i \in CallIds :
        (/\ ListCall(i) /\ Kind(calls[i].v.t) = "slice" /\ LenOf(calls[i].v) > 0
         /\ LET e == Elem(calls[i].v.t) IN Kind(e) = "ptr" /\ Kind(Elem(e)) = "struct")
            => IsMultiLine(i)

\* ---- C28: where the depth limit is ----

\* call i of print was entered with no error recorded and returned at once
\* with the depth error: it made no call of print
DepthRejected(i) ==
    /\ calls[i].done /\ calls[i].err0 = NoErr
    /\ calls[i].err = ErrDepth
    /\ (i = Len(calls) \/ calls[i + 1].parent # i)

\* the number of calls of print active when call i starts, itself included
NestedCalls(i) == calls[i].depth + 1

\* C28: a call of print fails with the depth error exactly when it is nested
\* call number maxDepth + 1 or later
DepthErrorAtMaxDepth ==
    \A i \in CallIds :
        (calls[i].done /\ calls[i].err0 = NoErr) =>
            (DepthRejected(i) <=> NestedCalls(i) > maxDepth)

\* C28 as the code has it: a call of print fails with the depth error exactly
\* when maxDepth + 1 calls are active already, that is as nested call number
\* maxDepth + 2; a value that needs maxDepth + 1 nested calls is emitted
DepthErrorPastMaxDepth ==
    /\ \A i \in CallIds :
        (calls[i].done /\ calls[i].err0 = NoErr) =>
            /\ DepthRejected(i) <=> NestedCalls(i) > maxDepth + 1
            /\ NestedCalls(i) <= maxDepth + 2
    /\ (pc = "done" /\ \A i \in CallIds : NestedCalls(i) <= maxDepth + 1)
            => ret.err # ErrDepth

\* the chain of maxDepth pointers of type P that ends in nil has been emitted:
\* the nil is nested call number maxDepth + 1
DepthLimitCase ==
    /\ pc = "done" /\ ret.err = NoErr
    /\ value = PChainV
    /\ Len(calls) = maxDepth + 1
    /\ NestedCalls(maxDepth + 1) = maxDepth + 1
    /\ calls[maxDepth + 1].text = <<"P", "(", "nil", ")">>
    /\ Len(ret.text) = maxDepth + 4


\* ---- C29: what follows the address-of marker ----

\* call i wrote & and then the text of its referent, without error
AddressCall(i) ==
    /\ CompositePtrCall(i) /\ calls[i].err = NoErr
    /\ calls[i].text # <<>> /\ calls[i].text[1] = "&"

\* text is a composite literal of type t: the type's name, a brace, and a
\* closing brace at the end
IsLiteralOf(text, t) ==
    /\ StartsWith(text, TypeText(t) \o <<"{">>)
    /\ text[Len(text)] = "}"

\* C29: the text that follows an & is a struct, slice, array or map literal
\* with its braces, never a conversion of nil, a call or another &
AddressOfLiteral ==
    \A i \in CallIds :
        AddressCall(i) =>
            /\ SeqCall(i + 1)
            /\ IsLiteralOf(calls[i + 1].text, calls[i + 1].v.t)

\* the same for the pointers to a struct, an array, a non-nil slice or a
\* non-nil map whose type has no custom printer
AddressOfLiteralForComposites ==
    \A i \in CallIds :
        (/\ AddressCall(i)
         /\ LET elem == ElemOf(calls[i].v)
            IN /\ Kind(elem.t) \in SeqKinds /\ ~elem.n
               /\ elem.t \notin DOMAIN p.printers) =>
            /\ SeqCall(i + 1)
            /\ IsLiteralOf(calls[i + 1].text, calls[i + 1].v.t)

\* ---- C30: the counters of the state ----

\* the depth and tabDepth of a state
Counters(st) == <<st.depth, st.tabDepth>>

\* the counters of a state are in range
CountersInRange(st) ==
    /\ 0 <= st.depth /\ st.depth <= maxDepth + 1
    /\ 0 <= st.tabDepth

\* C30: a call of print returns with depth and tabDepth as they were when it
\* was entered, whether it returns at once, fails or runs a printSeq to its
\* end on a state that holds an error; while Fprint runs, depth stays within
\* 0..maxDepth + 1 and tabDepth is never negative, on the state and on
\* sprint's copy; no step taken while sprint's copy exists changes the
\* counters of the state it was copied from; Fprint returns with both at 0
CounterBalance ==
    /\ [][PrintReturn =>
            LET c == calls[Top.ix]
                st == IF c.sub THEN s2' ELSE s'
            IN Counters(st) = <<c.depth, c.tabs>>]_vars
    /\ [][(PrintSkip \/ PrintTooDeep) =>
            Counters(s') = Counters(s) /\ Counters(s2') = Counters(s2)]_vars
    /\ [](pc = "running" =>
            CountersInRange(s) /\ (s2.live => CountersInRange(s2)))
    /\ [][s2.live => Counters(s') = Counters(s)]_vars
    /\ [](pc = "done" => Counters(s) = <<0, 0>>)

\* Sprint of a multi-line slice whose first element cannot be printed has
\* returned the error: printSeq ran to its end on the failed state, and the
\* counters are back at 0
CounterBalanceCase ==
    /\ pc = "done" /\ ret.err # NoErr
    /\ value = Items("[]interface{}", <<Iface(FuncV), Iface(ChanV)>>)
    /\ Len(calls) = 5
    /\ calls[2].tabs = 1 /\ calls[2].depth = 1
    /\ \A i \in CallIds : calls[i].done
    /\ Counters(s) = <<0, 0>>

\* ---- C22: two emissions on one Printer ----

\* what Sprint of the values of ConcInputs returns on ConfiguredPrinter when
\* it is the only call
Alone(v) ==
    CASE v = AssortedV ->
            [text |-> <<"[]", "interface{}", "{",
                        "\n", "\t", "float32", "(", "1", ")", ",",
                        "\n", "\t", "complex64", "(", "(1-1i)", ")", ",",
                        "\n", "\t", "func() *", "int", " { var x ", "int", " = ", "5",
                        "; return &x }()", ",",
                        "\n", "\t", "map[", "string", "]", "int", "{",
                        "\n", "\t", "\t", "\"b\"", ": ", "2", ",",
                        "\n", "\t", "\t", "\"a\"", ": ", "1", ",",
                        "\n", "\t", "}", ",",
                        "\n", "\t", "tm", ".", "Date", "(", "2008", ", ", "tm", ".", "April",
                        ", ", "23", ", ", "9", ", ", "56", ", ", "23", ", ", "29", ", ",
                        "tm", ".", "Local", ")", ",",
                        "\n", "\t", "nil", ",",
                        "\n", "\t", "&", "printsrc", ".", "Nested", "{", "B", ": ", "3", "}", ",",
                        "\n", "}">>,
             err |-> NoErr]
      [] v = FailingV ->
            [text |-> <<>>, err |-> <<"cannot print values of type", "func()">>]
      [] v = PCycleV ->
            [text |-> <<>>,
             err |-> <<"max recursion depth exceeded (probable circularity)">>]

\* C22: no step of an emission changes the Printer; a step of one call of
\* Fprint changes nothing of the other call; and whatever the interleaving of
\* the steps of two calls of Fprint on the configured Printer, each returns
\* the text and the error it returns when it is the only call
EmissionsIndependent ==
    /\ [][p' = p]_vars
    /\ [][other' # other => Switch]_vars
    /\ [](pc = "done" => ret = Alone(value))
    /\ [](other.ctx.pc = "done" => other.ctx.ret = Alone(other.ctx.value))

\* in the specification of the single call too, no step from the call of
\* Fprint to its return changes the Printer
EmissionKeepsPrinter ==
    [][(pc # "config" \/ pc' = "running") => p' = p]_vars

\* two calls of Fprint that were running at the same time have returned: one
\* the text of the slice of many kinds, the other the error of the slice that
\* cannot be printed
EmissionsOverlapCase ==
    /\ other.met
    /\ pc = "done" /\ value = AssortedV
    /\ ret = Alone(AssortedV) /\ ret.err = NoErr
    /\ other.ctx.pc = "done" /\ other.ctx.value = FailingV
    /\ other.ctx.ret.err # NoErr

\* ---- C23: every call of Fprint starts afresh ----

\* C23: a call of Fprint that follows other calls on the Printer starts from
\* a state with no error, depth 0, tabDepth 0 and nothing written, and leaves
\* the Printer as it is; every call, the first and the later ones, returns the
\* text and the error the value gets as the first call on the Printer
FreshEveryCall ==
    /\ [][(\E v \in ConcInputs : FprintAgain(Buffer, v)) =>
            /\ s'.err = NoErr /\ s'.depth = 0 /\ s'.tabDepth = 0 /\ s'.w = <<>>
            /\ calls' = <<>>
            /\ p' = p]_vars
    /\ [](\A i \in 1..Len(log) : log[i].ret = Alone(log[i].value))
    /\ [](pc = "done" => ret = Alone(value))

\* the Printer has emitted the slice of many kinds after a call that ran
\* into the depth limit and a call that failed on a func
FreshEveryCallCase ==
    /\ pc = "done"
    /\ Len(log) = 2
    /\ log[1].value = PCycleV
    /\ log[1].ret.err = <<"max recursion depth exceeded (probable circularity)">>
    /\ log[2].value = FailingV /\ log[2].ret.err # NoErr
    /\ value = AssortedV
    /\ ret.err = NoErr /\ ret = Alone(AssortedV)

====
